---- MODULE Spec2Model ----
(***************************************************************************)
(* Game sessions, memberships, current-game flag, player order and board   *)
(* layout of app/services/games.server.ts, modelled over the two tables    *)
(* `games` and `game_players`.                                             *)
(***************************************************************************)
EXTENDS Integers, Sequences, FiniteSets, TLC

(* ---------------------------- bounds ---------------------------------- *)
MaxGames == 2          \* game ids handed out by AUTO_INCREMENT: 1..MaxGames
MaxPlayerRows == 2     \* game_players ids handed out: 1..MaxPlayerRows
MaxRaceRows == 3       \* the same, while requestJoinGame calls interleave
MaxSeed == 4           \* random sources 0..MaxSeed of a generateGameLayout call
RandDen == 4           \* Math.random() takes the values 0/RandDen .. (RandDen-1)/RandDen
MaxMoveLen == 3        \* entries of the orderJson of a reorder-players request

(* ------------------------- program constants -------------------------- *)
MinJoinCode == 100000
JoinCodeSpan == 900000
MaxAttempts == 10

Emails == {"a@x.com", "b@x.com"}
Requests == {"r1", "r2"}
Names == {"Friday Night"}
\* Math.floor(Math.random() * 900000) + 100000: the lowest and the highest draw.
Codes == {MinJoinCode, MinJoinCode + JoinCodeSpan - 1}
GameIds == 1 .. (MaxGames + 1)   \* every id that can be issued, and one that never is

PLAYER_STATUSES == {"admin", "waiting", "confirmed"}
GAME_STATUSES == {"not_started", "started", "finished"}

NoGame == 0
NoEmail == "-"
NoStatus == "-"
NullToken == 0

VARIABLES
  games,          \* rows of table games
  players,        \* rows of table game_players
  nextGameId,     \* AUTO_INCREMENT counter of games
  nextPlayerId,   \* AUTO_INCREMENT counter of game_players
  result,         \* what the last call returned (or that it threw)
  calls           \* per request in flight: where it stands and its local variables

vars == <<games, players, nextGameId, nextPlayerId, result, calls>>
tables == <<games, players, nextGameId, nextPlayerId>>

(* ------------------------------ messages ------------------------------ *)
MsgCodeNotFound == "Game not found with that code."
MsgAlreadyRequested == "You have already requested to join this game."
MsgAlreadyPart == "You are already part of this game."
MsgJoinSubmitted == "Join request submitted. Waiting for admin approval."
MsgNotAdmin == "You are not an admin for this game."
MsgPlayerNotFound == "Player not found for this game."
MsgApproved == "Player approved."
MsgWaitingNotFound == "Waiting request not found."
MsgRejected == "Join request rejected."
MsgCannotRemoveAdmin == "Cannot remove an admin from their own game."
MsgRemoved == "Player removed."
MsgGameNotFound == "Game not found."
MsgGameDeleted == "Game deleted."
MsgNotPart == "You are not part of this game."
MsgAdminCannotLeave == "Admins cannot leave their own game. Delete the game instead."
MsgLeft == "You left the game."
MsgCurrentUpdated == "Current game updated."
MsgCannotReorder == "Cannot reorder after game start."
MsgBadOrder == "Order must include all confirmed players exactly once."
MsgOrderUpdated == "Player order updated."
MsgStatusUpdated == "Game marked as"
MsgLayoutPhase == "Layout can be created only before the game starts."
MsgLayoutGenerated == "Game layout generated."
MsgCreated == "created"
ErrNoUniqueCode == "Could not generate a unique join code"
ErrLoadAfterCreate == "Failed to load game after creation"

\* The value a call hands back: ActionResult, or a thrown Error.
Result(op, ok, thrown, message, status) ==
  [op |-> op, ok |-> ok, thrown |-> thrown, message |-> message, status |-> status]

NoResult == Result("none", FALSE, FALSE, "", NoStatus)

\* A request that is not running; the other fields are its locals once it runs,
\* the rows its open transaction has written: cleared (is_current = 0) and
\* marked (is_current = 1), by id, and of the game that its getGame returned the
\* status, the gameState and the emails of the players that are not waiting;
\* order, targetEmail and direction are the form fields of a reorder-players
\* request as received.
Idle == [pc |-> "idle", name |-> "", email |-> NoEmail, joinCode |-> 0, attempt |-> 0,
         markCurrent |-> FALSE, gameId |-> NoGame,
         cleared |-> {}, marked |-> {},
         newOrder |-> <<>>, preset |-> "none", status |-> NoStatus,
         confirmed |-> <<>>, gameState |-> [playerOrder |-> <<>>, tiles |-> <<>>],
         order |-> <<>>, targetEmail |-> NoEmail, direction |-> ""]

(* ------------------------------ queries ------------------------------- *)
\* Boolean(row.is_current)
mapPlayerRow(row) ==
  [id |-> row.id, gameId |-> row.game_id, email |-> row.player_email,
   status |-> row.status, isCurrent |-> (row.is_current # 0)]

\* SELECT 1 FROM game_players WHERE game_id = ? AND player_email = ? AND status = 'admin'
\* Mutant: the SELECT forgets the status = 'admin' condition.
isAdminAnyStatus(gameId, email) ==
  \E r \in players : r.game_id = gameId /\ r.player_email = email

isAdmin(gameId, email) ==
  \E r \in players : r.game_id = gameId /\ r.player_email = email /\ r.status = "admin"

\* Mutant: the SELECT forgets the game_id condition.
getPlayerAnyGame(gameId, email) ==
  {mapPlayerRow(r) : r \in {q \in players : q.player_email = email}}

\* The rows getPlayer may return (LIMIT 1 without ORDER BY); {} stands for null.
getPlayer(gameId, email) ==
  {mapPlayerRow(r) : r \in {q \in players : q.game_id = gameId /\ q.player_email = email}}

StatusRank(s) == IF s = "admin" THEN 0 ELSE IF s = "confirmed" THEN 1 ELSE 2

\* ORDER BY status = 'admin' DESC, status = 'confirmed' DESC, created_at ASC
RowBefore(r, q) ==
  \/ StatusRank(r.status) < StatusRank(q.status)
  \/ StatusRank(r.status) = StatusRank(q.status) /\ r.id < q.id

RECURSIVE SortRows(_)
SortRows(S) ==
  IF S = {} THEN <<>>
  ELSE LET first == CHOOSE r \in S : \A q \in S \ {r} : RowBefore(r, q)
       IN <<first>> \o SortRows(S \ {first})

fetchPlayersByGameIds(gameId) ==
  LET rows == SortRows({r \in players : r.game_id = gameId})
  IN [i \in 1 .. Len(rows) |-> mapPlayerRow(rows[i])]

\* A stored document is read back as the object that was written.
parseGameState(value) == [playerOrder |-> value.playerOrder, tiles |-> value.tiles]

mapGameRow(row) ==
  [id |-> row.id, name |-> row.name, joinCode |-> row.join_code,
   createdBy |-> row.created_by, status |-> row.status,
   gameState |-> parseGameState(row.game_state)]

\* The games getGame may return, each with its players; {} stands for null.
getGame(gameId) ==
  {[game |-> mapGameRow(g), players |-> fetchPlayersByGameIds(gameId)] :
     g \in {h \in games : h.id = gameId}}

getGameByJoinCode(joinCode) ==
  {[game |-> mapGameRow(g), players |-> fetchPlayersByGameIds(g.id)] :
     g \in {h \in games : h.join_code = joinCode}}

(* --------------------------- sequence helpers ------------------------- *)
Range(s) == {s[i] : i \in 1 .. Len(s)}

RECURSIVE SelectSeq2DropsRepeats(_, _)
\* Mutant: the filter lets every email through once only.
SelectSeq2DropsRepeats(s, keep) ==
  IF s = <<>> THEN <<>>
  ELSE IF Head(s) \in keep
       THEN <<Head(s)>> \o SelectSeq2DropsRepeats(Tail(s), keep \ {Head(s)})
       ELSE SelectSeq2DropsRepeats(Tail(s), keep)

RECURSIVE SelectSeq2(_, _)
\* items.filter(keep)
SelectSeq2(s, keep) ==
  IF s = <<>> THEN <<>>
  ELSE IF Head(s) \in keep THEN <<Head(s)>> \o SelectSeq2(Tail(s), keep)
       ELSE SelectSeq2(Tail(s), keep)

RECURSIVE AppendMissingLastFirst(_, _)
\* Mutant: the loop walks confirmedEmails from its last entry to its first.
AppendMissingLastFirst(cleaned, confirmedEmails) ==
  IF confirmedEmails = <<>> THEN cleaned
  ELSE LET last == confirmedEmails[Len(confirmedEmails)]
           rest == SubSeq(confirmedEmails, 1, Len(confirmedEmails) - 1)
       IN IF last \in Range(cleaned)
          THEN AppendMissingLastFirst(cleaned, rest)
          ELSE AppendMissingLastFirst(Append(cleaned, last), rest)

RECURSIVE AppendMissing(_, _)
\* for (const email of confirmedEmails) if (!cleaned.includes(email)) cleaned.push(email)
AppendMissing(cleaned, confirmedEmails) ==
  IF confirmedEmails = <<>> THEN cleaned
  ELSE IF Head(confirmedEmails) \in Range(cleaned)
       THEN AppendMissing(cleaned, Tail(confirmedEmails))
       ELSE AppendMissing(Append(cleaned, Head(confirmedEmails)), Tail(confirmedEmails))

\* Mutant: the loop that appends the missing members is left out.
normalizePlayerOrderNoAppend(currentOrder, confirmedEmails) ==
  SelectSeq2(currentOrder, Range(confirmedEmails))

\* Mutant: the result is the list of the confirmed players as the query returned it.
normalizePlayerOrderAsQueried(currentOrder, confirmedEmails) == confirmedEmails

\* Mutant: every confirmed email is pushed, also those the list has already.
normalizePlayerOrderPushesAll(currentOrder, confirmedEmails) ==
  SelectSeq2(currentOrder, Range(confirmedEmails)) \o confirmedEmails

normalizePlayerOrder(currentOrder, confirmedEmails) ==
  AppendMissing(SelectSeq2(currentOrder, Range(confirmedEmails)), confirmedEmails)

RECURSIVE EmailsWhere(_, _)
\* players.filter(p => p.status in keep).map(p => p.email)
EmailsWhere(ps, keep) ==
  IF ps = <<>> THEN <<>>
  ELSE IF Head(ps).status \in keep THEN <<Head(ps).email>> \o EmailsWhere(Tail(ps), keep)
       ELSE EmailsWhere(Tail(ps), keep)

(* ------------------------------ Init ---------------------------------- *)
Init ==
  /\ games = {}
  /\ players = {}
  /\ nextGameId = 1
  /\ nextPlayerId = 1
  /\ result = NoResult
  /\ calls = [p \in Requests |-> Idle]

(* ----------------------------- statements ----------------------------- *)
NoCode == 0

\* SELECT id FROM games WHERE join_code = ? LIMIT 1  (rows.length === 0)
CodeUnused(code) == ~ \E g \in games : g.join_code = code

RECURSIVE generateJoinCode(_)
\* What the retry loop can hand back from attempt `attempt` on, the table
\* being left alone meanwhile: an unused code, or NoCode for the throw after
\* the last attempt.
generateJoinCode(attempt) ==
  IF attempt >= MaxAttempts THEN {NoCode}
  ELSE {c \in Codes : CodeUnused(c)}
         \cup (IF \E c \in Codes : ~ CodeUnused(c) THEN generateJoinCode(attempt + 1) ELSE {})

\* Mutant: the SELECT forgets the player_email condition.
ExistingCurrentAnyone(email) == {r \in players : r.is_current = 1}

\* SELECT 1 FROM game_players WHERE player_email = ? AND is_current = 1
ExistingCurrent(email) ==
  {r \in players : r.player_email = email /\ r.is_current = 1}

\* Column default of game_players.is_current, used by the INSERT of requestJoinGame.
IsCurrentDefault == 0

\* Mutant: initialState starts with an empty playerOrder.
InsertGameEmptyOrder(gs, id, name, joinCode, creatorEmail) ==
  gs \cup {[id |-> id, name |-> name, join_code |-> joinCode, created_by |-> creatorEmail,
            status |-> "not_started",
            game_state |-> [playerOrder |-> <<>>, tiles |-> <<>>]]}

\* INSERT INTO games (name, join_code, created_by, status, game_state)
InsertGame(gs, id, name, joinCode, creatorEmail) ==
  gs \cup {[id |-> id, name |-> name, join_code |-> joinCode, created_by |-> creatorEmail,
            status |-> "not_started",
            game_state |-> [playerOrder |-> <<creatorEmail>>, tiles |-> <<>>]]}

\* INSERT INTO game_players (game_id, player_email, status, is_current)
InsertPlayer(ps, id, gameId, email, status, isCurrent) ==
  ps \cup {[id |-> id, game_id |-> gameId, player_email |-> email,
            status |-> status, is_current |-> isCurrent]}

\* Rows of game_players that go with a deleted game (foreign key, ON DELETE CASCADE).
CascadePlayers(ps, gameId) == {r \in ps : r.game_id # gameId}

\* Mutant: the UPDATE only touches rows that are waiting.
ApproveRowsWaitingOnly(ps, gameId, email) ==
  {IF r.game_id = gameId /\ r.player_email = email /\ r.status = "waiting"
     THEN [r EXCEPT !.status = "confirmed"] ELSE r : r \in ps}

\* Mutant: the UPDATE sets the status to 'admin'.
ApproveRowsMakesAdmin(ps, gameId, email) ==
  {IF r.game_id = gameId /\ r.player_email = email
     THEN [r EXCEPT !.status = "admin"] ELSE r : r \in ps}

\* UPDATE game_players SET status = 'confirmed' WHERE game_id = ? AND player_email = ?
ApproveRows(ps, gameId, email) ==
  {IF r.game_id = gameId /\ r.player_email = email
     THEN [r EXCEPT !.status = "confirmed"] ELSE r : r \in ps}

\* Mutant: the clearing UPDATE matches no row.
ClearCurrentNothing(ps, email) == ps

\* UPDATE game_players SET is_current = 0 WHERE player_email = ?
ClearCurrent(ps, email) ==
  {IF r.player_email = email THEN [r EXCEPT !.is_current = 0] ELSE r : r \in ps}

\* Mutant: the marking UPDATE forgets the game_id condition.
MarkCurrentAllGames(ps, gameId, email) ==
  {IF r.player_email = email THEN [r EXCEPT !.is_current = 1] ELSE r : r \in ps}

\* UPDATE game_players SET is_current = 1 WHERE game_id = ? AND player_email = ?
MarkCurrent(ps, gameId, email) ==
  {IF r.game_id = gameId /\ r.player_email = email
     THEN [r EXCEPT !.is_current = 1] ELSE r : r \in ps}

\* UPDATE games SET game_state = ? WHERE id = ?
saveGameState(gs, gameId, state) ==
  {IF g.id = gameId THEN [g EXCEPT !.game_state = state] ELSE g : g \in gs}

\* Mutant: the UPDATE writes 'started' whatever status was asked for.
SetStatusStarted(gs, gameId, status) ==
  {IF g.id = gameId THEN [g EXCEPT !.status = "started"] ELSE g : g \in gs}

\* UPDATE games SET status = ? WHERE id = ?
SetStatus(gs, gameId, status) ==
  {IF g.id = gameId THEN [g EXCEPT !.status = status] ELSE g : g \in gs}

(* ------------------- operations, each run to completion --------------- *)
createGame(name, creatorEmail) ==
  /\ nextGameId <= MaxGames
  /\ nextPlayerId <= MaxPlayerRows
  /\ \E joinCode \in generateJoinCode(0) :
       IF joinCode = NoCode
       THEN /\ result' = Result("createGame", FALSE, TRUE, ErrNoUniqueCode, NoStatus)
            /\ UNCHANGED tables
       ELSE LET markCurrent == ExistingCurrent(creatorEmail) = {}
                gameId == nextGameId
            IN /\ games' = InsertGame(games, gameId, name, joinCode, creatorEmail)
               /\ players' = InsertPlayer(players, nextPlayerId, gameId, creatorEmail,
                                          "admin", IF markCurrent THEN 1 ELSE 0)
               /\ nextGameId' = nextGameId + 1
               /\ nextPlayerId' = nextPlayerId + 1
               /\ result' = Result("createGame", TRUE, FALSE, MsgCreated, "admin")

requestJoinGame(joinCode, email) ==
  LET op(ok, msg, st) == Result("requestJoinGame", ok, FALSE, msg, st)
  IN IF getGameByJoinCode(joinCode) = {}
     THEN result' = op(FALSE, MsgCodeNotFound, NoStatus) /\ UNCHANGED tables
     ELSE \E found \in getGameByJoinCode(joinCode) :
            LET game == found.game IN
            IF getPlayer(game.id, email) # {}
            THEN \E existing \in getPlayer(game.id, email) :
                   /\ result' = op(TRUE,
                                   IF existing.status = "waiting"
                                     THEN MsgAlreadyRequested ELSE MsgAlreadyPart,
                                   existing.status)
                   /\ UNCHANGED tables
            ELSE /\ nextPlayerId <= MaxPlayerRows
                 /\ players' = InsertPlayer(players, nextPlayerId, game.id, email,
                                            "waiting", IsCurrentDefault)
                 /\ nextPlayerId' = nextPlayerId + 1
                 /\ result' = op(TRUE, MsgJoinSubmitted, "waiting")
                 /\ UNCHANGED <<games, nextGameId>>

approvePlayer(gameId, targetEmail, adminEmail) ==
  LET op(ok, msg) == Result("approvePlayer", ok, FALSE, msg, NoStatus)
      affectedRows == Cardinality({r \in players :
                                     r.game_id = gameId /\ r.player_email = targetEmail})
  IN IF ~ isAdmin(gameId, adminEmail)
     THEN result' = op(FALSE, MsgNotAdmin) /\ UNCHANGED tables
     ELSE /\ players' = ApproveRows(players, gameId, targetEmail)
          /\ result' = IF affectedRows = 0 THEN op(FALSE, MsgPlayerNotFound)
                                           ELSE op(TRUE, MsgApproved)
          /\ UNCHANGED <<games, nextGameId, nextPlayerId>>

\* Mutant: the DELETE forgets the status = 'waiting' condition.
rejectPlayerAnyStatus(gameId, targetEmail, adminEmail) ==
  LET op(ok, msg) == Result("rejectPlayer", ok, FALSE, msg, NoStatus)
      hit == {r \in players : r.game_id = gameId /\ r.player_email = targetEmail}
  IN IF ~ isAdmin(gameId, adminEmail)
     THEN result' = op(FALSE, MsgNotAdmin) /\ UNCHANGED tables
     ELSE /\ players' = players \ hit
          /\ result' = IF Cardinality(hit) = 0 THEN op(FALSE, MsgWaitingNotFound)
                                               ELSE op(TRUE, MsgRejected)
          /\ UNCHANGED <<games, nextGameId, nextPlayerId>>

rejectPlayer(gameId, targetEmail, adminEmail) ==
  LET op(ok, msg) == Result("rejectPlayer", ok, FALSE, msg, NoStatus)
      hit == {r \in players : r.game_id = gameId /\ r.player_email = targetEmail
                                /\ r.status = "waiting"}
  IN IF ~ isAdmin(gameId, adminEmail)
     THEN result' = op(FALSE, MsgNotAdmin) /\ UNCHANGED tables
     ELSE /\ players' = players \ hit
          /\ result' = IF Cardinality(hit) = 0 THEN op(FALSE, MsgWaitingNotFound)
                                               ELSE op(TRUE, MsgRejected)
          /\ UNCHANGED <<games, nextGameId, nextPlayerId>>

\* Mutant: the check of target.status === 'admin' is missing.
removePlayerAnyStatus(gameId, targetEmail, adminEmail) ==
  LET op(ok, msg) == Result("removePlayer", ok, FALSE, msg, NoStatus)
  IN IF ~ isAdmin(gameId, adminEmail)
     THEN result' = op(FALSE, MsgNotAdmin) /\ UNCHANGED tables
     ELSE IF getPlayer(gameId, targetEmail) = {}
     THEN result' = op(FALSE, MsgPlayerNotFound) /\ UNCHANGED tables
     ELSE \E target \in getPlayer(gameId, targetEmail) :
            /\ players' = {r \in players : r.id # target.id}
            /\ result' = op(TRUE, MsgRemoved)
            /\ UNCHANGED <<games, nextGameId, nextPlayerId>>

removePlayer(gameId, targetEmail, adminEmail) ==
  LET op(ok, msg) == Result("removePlayer", ok, FALSE, msg, NoStatus)
  IN IF ~ isAdmin(gameId, adminEmail)
     THEN result' = op(FALSE, MsgNotAdmin) /\ UNCHANGED tables
     ELSE IF getPlayer(gameId, targetEmail) = {}
     THEN result' = op(FALSE, MsgPlayerNotFound) /\ UNCHANGED tables
     ELSE \E target \in getPlayer(gameId, targetEmail) :
            IF target.status = "admin"
            THEN result' = op(FALSE, MsgCannotRemoveAdmin) /\ UNCHANGED tables
            ELSE /\ players' = {r \in players : r.id # target.id}
                 /\ result' = op(TRUE, MsgRemoved)
                 /\ UNCHANGED <<games, nextGameId, nextPlayerId>>

\* Mutant: the DELETE names game_players instead of games.
deleteGamePlayersOnly(gameId, adminEmail) ==
  LET op(ok, msg) == Result("deleteGame", ok, FALSE, msg, NoStatus)
      hit == {r \in players : r.game_id = gameId}
  IN IF ~ isAdmin(gameId, adminEmail)
     THEN result' = op(FALSE, MsgNotAdmin) /\ UNCHANGED tables
     ELSE /\ players' = players \ hit
          /\ result' = IF Cardinality(hit) = 0 THEN op(FALSE, MsgGameNotFound)
                                               ELSE op(TRUE, MsgGameDeleted)
          /\ UNCHANGED <<games, nextGameId, nextPlayerId>>

deleteGame(gameId, adminEmail) ==
  LET op(ok, msg) == Result("deleteGame", ok, FALSE, msg, NoStatus)
      affectedRows == Cardinality({g \in games : g.id = gameId})
  IN IF ~ isAdmin(gameId, adminEmail)
     THEN result' = op(FALSE, MsgNotAdmin) /\ UNCHANGED tables
     ELSE /\ games' = {g \in games : g.id # gameId}
          /\ players' = IF affectedRows = 0 THEN players ELSE CascadePlayers(players, gameId)
          /\ result' = IF affectedRows = 0 THEN op(FALSE, MsgGameNotFound)
                                           ELSE op(TRUE, MsgGameDeleted)
          /\ UNCHANGED <<nextGameId, nextPlayerId>>

\* Mutant: the check of player.status === 'admin' is missing.
leaveGameAnyStatus(gameId, email) ==
  LET op(ok, msg) == Result("leaveGame", ok, FALSE, msg, NoStatus)
  IN IF getPlayer(gameId, email) = {}
     THEN result' = op(FALSE, MsgNotPart) /\ UNCHANGED tables
     ELSE \E player \in getPlayer(gameId, email) :
            /\ players' = {r \in players : r.id # player.id}
            /\ result' = op(TRUE, MsgLeft)
            /\ UNCHANGED <<games, nextGameId, nextPlayerId>>

\* Mutant: an admin who tries to leave gets a thrown Error instead of a result.
leaveGameThrowsForAdmin(gameId, email) ==
  LET op(ok, msg) == Result("leaveGame", ok, FALSE, msg, NoStatus)
  IN IF getPlayer(gameId, email) = {}
     THEN result' = op(FALSE, MsgNotPart) /\ UNCHANGED tables
     ELSE \E player \in getPlayer(gameId, email) :
            IF player.status = "admin"
            THEN /\ result' = Result("leaveGame", FALSE, TRUE, MsgAdminCannotLeave, NoStatus)
                 /\ UNCHANGED tables
            ELSE /\ players' = {r \in players : r.id # player.id}
                 /\ result' = op(TRUE, MsgLeft)
                 /\ UNCHANGED <<games, nextGameId, nextPlayerId>>

leaveGame(gameId, email) ==
  LET op(ok, msg) == Result("leaveGame", ok, FALSE, msg, NoStatus)
  IN IF getPlayer(gameId, email) = {}
     THEN result' = op(FALSE, MsgNotPart) /\ UNCHANGED tables
     ELSE \E player \in getPlayer(gameId, email) :
            IF player.status = "admin"
            THEN result' = op(FALSE, MsgAdminCannotLeave) /\ UNCHANGED tables
            ELSE /\ players' = {r \in players : r.id # player.id}
                 /\ result' = op(TRUE, MsgLeft)
                 /\ UNCHANGED <<games, nextGameId, nextPlayerId>>

setCurrentGameForUser(gameId, email) ==
  LET op(ok, msg) == Result("setCurrentGameForUser", ok, FALSE, msg, NoStatus)
  IN IF getPlayer(gameId, email) = {}
     THEN result' = op(FALSE, MsgNotPart) /\ UNCHANGED tables
     ELSE /\ players' = MarkCurrent(ClearCurrent(players, email), gameId, email)
          /\ result' = op(TRUE, MsgCurrentUpdated)
          /\ UNCHANGED <<games, nextGameId, nextPlayerId>>

\* Mutant: the check of game.status is missing.
reorderPlayerOrderAnyStatus(gameId, adminEmail, newOrder) ==
  LET op(ok, msg) == Result("reorderPlayerOrder", ok, FALSE, msg, NoStatus)
  IN IF getGame(gameId) = {}
     THEN result' = op(FALSE, MsgGameNotFound) /\ UNCHANGED tables
     ELSE \E found \in getGame(gameId) :
            LET game == found.game
                confirmed == EmailsWhere(found.players, {"admin", "confirmed"})
                normalized == normalizePlayerOrder(newOrder, confirmed)
            IN IF ~ isAdmin(gameId, adminEmail)
               THEN result' = op(FALSE, MsgNotAdmin) /\ UNCHANGED tables
               ELSE IF \/ Len(normalized) # Len(confirmed)
                       \/ \E i \in 1 .. Len(confirmed) : confirmed[i] \notin Range(normalized)
               THEN result' = op(FALSE, MsgBadOrder) /\ UNCHANGED tables
               ELSE /\ games' = saveGameState(games, gameId,
                                   [game.gameState EXCEPT !.playerOrder = normalized])
                    /\ result' = op(TRUE, MsgOrderUpdated)
                    /\ UNCHANGED <<players, nextGameId, nextPlayerId>>

\* Mutant: the check of the normalized order against the confirmed players is missing.
reorderPlayerOrderUnchecked(gameId, adminEmail, newOrder) ==
  LET op(ok, msg) == Result("reorderPlayerOrder", ok, FALSE, msg, NoStatus)
  IN IF getGame(gameId) = {}
     THEN result' = op(FALSE, MsgGameNotFound) /\ UNCHANGED tables
     ELSE \E found \in getGame(gameId) :
            LET game == found.game
                confirmed == EmailsWhere(found.players, {"admin", "confirmed"})
                normalized == normalizePlayerOrder(newOrder, confirmed)
            IN IF game.status # "not_started"
               THEN result' = op(FALSE, MsgCannotReorder) /\ UNCHANGED tables
               ELSE IF ~ isAdmin(gameId, adminEmail)
               THEN result' = op(FALSE, MsgNotAdmin) /\ UNCHANGED tables
               ELSE /\ games' = saveGameState(games, gameId,
                                   [game.gameState EXCEPT !.playerOrder = normalized])
                    /\ result' = op(TRUE, MsgOrderUpdated)
                    /\ UNCHANGED <<players, nextGameId, nextPlayerId>>

reorderPlayerOrder(gameId, adminEmail, newOrder) ==
  LET op(ok, msg) == Result("reorderPlayerOrder", ok, FALSE, msg, NoStatus)
  IN IF getGame(gameId) = {}
     THEN result' = op(FALSE, MsgGameNotFound) /\ UNCHANGED tables
     ELSE \E found \in getGame(gameId) :
            LET game == found.game
                confirmed == EmailsWhere(found.players, {"admin", "confirmed"})
                normalized == normalizePlayerOrder(newOrder, confirmed)
            IN IF game.status # "not_started"
               THEN result' = op(FALSE, MsgCannotReorder) /\ UNCHANGED tables
               ELSE IF ~ isAdmin(gameId, adminEmail)
               THEN result' = op(FALSE, MsgNotAdmin) /\ UNCHANGED tables
               ELSE IF \/ Len(normalized) # Len(confirmed)
                       \/ \E i \in 1 .. Len(confirmed) : confirmed[i] \notin Range(normalized)
               THEN result' = op(FALSE, MsgBadOrder) /\ UNCHANGED tables
               ELSE /\ games' = saveGameState(games, gameId,
                                   [game.gameState EXCEPT !.playerOrder = normalized])
                    /\ result' = op(TRUE, MsgOrderUpdated)
                    /\ UNCHANGED <<players, nextGameId, nextPlayerId>>

\* Mutant: the UPDATE of the status empties the tiles of the game as well.
updateGameStatusClearsBoard(gameId, adminEmail, status) ==
  LET op(ok, msg) == Result("updateGameStatus", ok, FALSE, msg, status)
      affectedRows == Cardinality({g \in games : g.id = gameId})
      cleared == {IF g.id = gameId THEN [g EXCEPT !.game_state.tiles = <<>>] ELSE g
                  : g \in games}
  IN IF ~ isAdmin(gameId, adminEmail)
     THEN result' = op(FALSE, MsgNotAdmin) /\ UNCHANGED tables
     ELSE /\ games' = SetStatus(cleared, gameId, status)
          /\ result' = IF affectedRows = 0 THEN op(FALSE, MsgGameNotFound)
                                           ELSE op(TRUE, MsgStatusUpdated)
          /\ UNCHANGED <<players, nextGameId, nextPlayerId>>

updateGameStatus(gameId, adminEmail, status) ==
  LET op(ok, msg) == Result("updateGameStatus", ok, FALSE, msg, status)
      affectedRows == Cardinality({g \in games : g.id = gameId})
  IN IF ~ isAdmin(gameId, adminEmail)
     THEN result' = op(FALSE, MsgNotAdmin) /\ UNCHANGED tables
     ELSE /\ games' = SetStatus(games, gameId, status)
          /\ result' = IF affectedRows = 0 THEN op(FALSE, MsgGameNotFound)
                                           ELSE op(TRUE, MsgStatusUpdated)
          /\ UNCHANGED <<players, nextGameId, nextPlayerId>>

(* --------------------------- board layout ----------------------------- *)
\* Math.random() is a fraction n / RandDen with n in 0 .. RandDen - 1; a random
\* source is the sequence of numerators one shuffle consumes.
RandomSource(seed, len) ==
  [k \in 1 .. len |-> (seed + k * (1 + seed \div RandDen)) % RandDen]

Swap(arr, i, j) == [arr EXCEPT ![i] = arr[j], ![j] = arr[i]]

RECURSIVE shuffleFrom(_, _, _, _)
\* for (let i = arr.length - 1; i > 0; i--) { j = floor(random() * (i + 1)); swap }
\* i is the 0-based index of the source, k counts the calls of Math.random().
shuffleFrom(arr, i, rnd, k) ==
  IF i <= 0 THEN arr
  ELSE LET j == (rnd[k] * (i + 1)) \div RandDen
       IN shuffleFrom(Swap(arr, i + 1, j + 1), i - 1, rnd, k + 1)

\* rnd[first] is what the first call of Math.random() in this shuffle returns.
shuffle(items, rnd, first) == shuffleFrom(items, Len(items) - 1, rnd, first)

Repeat(n, x) == [i \in 1 .. n |-> x]

terrains ==
  Repeat(4, "wood") \o Repeat(4, "wheat") \o Repeat(4, "sheep")
    \o Repeat(3, "brick") \o Repeat(3, "ore") \o <<"desert">>

tokens == <<2, 12, 3, 3, 4, 4, 5, 5, 6, 6, 8, 8, 9, 9, 10, 10, 11, 11>>

StandardTerrains ==
  <<"ore", "wheat", "wood",
    "brick", "wood", "wheat", "brick",
    "wheat", "sheep", "desert", "ore", "brick",
    "wood", "wheat", "sheep", "wood",
    "brick", "sheep", "ore">>

\* Mutant: the filter that drops the null of the desert is missing.
StandardTokensUnfiltered ==
  <<10, 2, 9, 12, 6, 4, 10, 9, 11, NullToken, 3, 8, 5, 4, 11, 8, 5, 6, 3>>

\* [10, 2, 9, 12, 6, 4, 10, 9, 11, null, 3, 8, 5, 4, 11, 8, 5, 6, 3].filter(t => t !== null)
StandardTokens == <<10, 2, 9, 12, 6, 4, 10, 9, 11, 3, 8, 5, 4, 11, 8, 5, 6, 3>>

RECURSIVE BuildTilesDesertTakesToken(_, _, _)
\* Mutant: the desert tile shifts a token off shuffledTokens like any other tile.
BuildTilesDesertTakesToken(shuffledTerrains, rest, index) ==
  IF index > Len(shuffledTerrains) THEN <<>>
  ELSE LET terrain == shuffledTerrains[index] IN
       IF terrain = "desert"
       THEN <<[id |-> index, terrain |-> terrain, token |-> NullToken, hasRobber |-> TRUE]>>
              \o BuildTilesDesertTakesToken(shuffledTerrains,
                                            IF rest = <<>> THEN rest ELSE Tail(rest), index + 1)
       ELSE <<[id |-> index, terrain |-> terrain,
               token |-> IF rest = <<>> THEN NullToken ELSE Head(rest),
               hasRobber |-> FALSE]>>
              \o BuildTilesDesertTakesToken(shuffledTerrains,
                                            IF rest = <<>> THEN rest ELSE Tail(rest), index + 1)

RECURSIVE BuildTilesRobberOnEveryTile(_, _, _)
\* Mutant: the tiles that are not the desert get hasRobber: true as well.
BuildTilesRobberOnEveryTile(shuffledTerrains, rest, index) ==
  IF index > Len(shuffledTerrains) THEN <<>>
  ELSE LET terrain == shuffledTerrains[index] IN
       IF terrain = "desert"
       THEN <<[id |-> index, terrain |-> terrain, token |-> NullToken, hasRobber |-> TRUE]>>
              \o BuildTilesRobberOnEveryTile(shuffledTerrains, rest, index + 1)
       ELSE <<[id |-> index, terrain |-> terrain,
               token |-> IF rest = <<>> THEN NullToken ELSE Head(rest),
               hasRobber |-> TRUE]>>
              \o BuildTilesRobberOnEveryTile(shuffledTerrains,
                                             IF rest = <<>> THEN rest ELSE Tail(rest), index + 1)

RECURSIVE BuildTiles(_, _, _)
\* shuffledTerrains.map((terrain, index) => ...), from 1-based position `index` on;
\* rest is what is left of shuffledTokens.
BuildTiles(shuffledTerrains, rest, index) ==
  IF index > Len(shuffledTerrains) THEN <<>>
  ELSE LET terrain == shuffledTerrains[index] IN
       IF terrain = "desert"
       THEN <<[id |-> index, terrain |-> terrain, token |-> NullToken, hasRobber |-> TRUE]>>
              \o BuildTiles(shuffledTerrains, rest, index + 1)
       ELSE <<[id |-> index, terrain |-> terrain,
               token |-> IF rest = <<>> THEN NullToken ELSE Head(rest),
               hasRobber |-> FALSE]>>
              \o BuildTiles(shuffledTerrains, IF rest = <<>> THEN rest ELSE Tail(rest),
                            index + 1)

Presets == {"standard", "none"}

\* Mutant: the new state keeps the playerOrder as it was read.
generateGameLayoutStaleOrder(gameId, adminEmail, preset, rnd) ==
  LET op(ok, msg) == Result("generateGameLayout", ok, FALSE, msg, NoStatus)
  IN IF getGame(gameId) = {}
     THEN result' = op(FALSE, MsgGameNotFound) /\ UNCHANGED tables
     ELSE \E found \in getGame(gameId) :
            LET game == found.game
                shuffledTerrains == IF preset = "standard" THEN StandardTerrains
                                    ELSE shuffle(terrains, rnd, 1)
                shuffledTokens == IF preset = "standard" THEN StandardTokens
                                  ELSE shuffle(tokens, rnd, Len(terrains))
                tiles == BuildTiles(shuffledTerrains, shuffledTokens, 1)
            IN IF ~ isAdmin(gameId, adminEmail)
               THEN result' = op(FALSE, MsgNotAdmin) /\ UNCHANGED tables
               ELSE IF game.status # "not_started"
               THEN result' = op(FALSE, MsgLayoutPhase) /\ UNCHANGED tables
               ELSE /\ games' = saveGameState(games, gameId,
                                  [tiles |-> tiles,
                                   playerOrder |-> game.gameState.playerOrder])
                    /\ result' = op(TRUE, MsgLayoutGenerated)
                    /\ UNCHANGED <<players, nextGameId, nextPlayerId>>

\* rnd is what Math.random() returns, call after call: the shuffle of the terrains
\* consumes Len(terrains) - 1 values, the shuffle of the tokens the ones after them.
generateGameLayout(gameId, adminEmail, preset, rnd) ==
  LET op(ok, msg) == Result("generateGameLayout", ok, FALSE, msg, NoStatus)
  IN IF getGame(gameId) = {}
     THEN result' = op(FALSE, MsgGameNotFound) /\ UNCHANGED tables
     ELSE \E found \in getGame(gameId) :
            LET game == found.game
                shuffledTerrains == IF preset = "standard" THEN StandardTerrains
                                    ELSE shuffle(terrains, rnd, 1)
                shuffledTokens == IF preset = "standard" THEN StandardTokens
                                  ELSE shuffle(tokens, rnd, Len(terrains))
                tiles == BuildTiles(shuffledTerrains, shuffledTokens, 1)
            IN IF ~ isAdmin(gameId, adminEmail)
               THEN result' = op(FALSE, MsgNotAdmin) /\ UNCHANGED tables
               ELSE IF game.status # "not_started"
               THEN result' = op(FALSE, MsgLayoutPhase) /\ UNCHANGED tables
               ELSE /\ games' = saveGameState(games, gameId,
                                  [tiles |-> tiles,
                                   playerOrder |->
                                     normalizePlayerOrder(game.gameState.playerOrder,
                                       EmailsWhere(found.players, {"admin", "confirmed"}))])
                    /\ result' = op(TRUE, MsgLayoutGenerated)
                    /\ UNCHANGED <<players, nextGameId, nextPlayerId>>

\* Calls of Math.random() in one random-mode generateGameLayout.
RandomCalls == (Len(terrains) - 1) + (Len(tokens) - 1)

\* The game ids a request can name: the id of every stored game and one id that
\* names no game (a deleted game's id finds nothing either).
InputGameIds == {g.id : g \in games} \cup {nextGameId}

\* newOrder payloads: every list of up to as many emails as there are members.
Orders == UNION {[1 .. n -> Emails] : n \in 0 .. Cardinality(Emails)}
Seeds == 0 .. MaxSeed

CreateGame ==
  /\ \E name \in Names, e \in Emails : createGame(name, e)
  /\ UNCHANGED calls
RequestJoinGame ==
  /\ \E c \in Codes, e \in Emails : requestJoinGame(c, e)
  /\ UNCHANGED calls
ApprovePlayer ==
  /\ \E g \in InputGameIds, t \in Emails, e \in Emails : approvePlayer(g, t, e)
  /\ UNCHANGED calls
RejectPlayer ==
  /\ \E g \in InputGameIds, t \in Emails, e \in Emails : rejectPlayer(g, t, e)
  /\ UNCHANGED calls
RemovePlayer ==
  /\ \E g \in InputGameIds, t \in Emails, e \in Emails : removePlayer(g, t, e)
  /\ UNCHANGED calls
DeleteGame ==
  /\ \E g \in InputGameIds, e \in Emails : deleteGame(g, e)
  /\ UNCHANGED calls
LeaveGame ==
  /\ \E g \in InputGameIds, e \in Emails : leaveGame(g, e)
  /\ UNCHANGED calls
SetCurrentGameForUser ==
  /\ \E g \in InputGameIds, e \in Emails : setCurrentGameForUser(g, e)
  /\ UNCHANGED calls
ReorderPlayerOrder ==
  /\ \E g \in InputGameIds, e \in Emails, o \in Orders : reorderPlayerOrder(g, e, o)
  /\ UNCHANGED calls
UpdateGameStatus ==
  /\ \E g \in InputGameIds, e \in Emails, st \in GAME_STATUSES : updateGameStatus(g, e, st)
  /\ UNCHANGED calls
GenerateGameLayout ==
  /\ \E g \in InputGameIds, e \in Emails, preset \in Presets, seed \in Seeds :
       generateGameLayout(g, e, preset, RandomSource(seed, RandomCalls))
  /\ UNCHANGED calls
\* The same with the first random source only.
GenerateLayoutFirstSource ==
  /\ \E g \in InputGameIds, e \in Emails, preset \in Presets :
       generateGameLayout(g, e, preset, RandomSource(0, RandomCalls))
  /\ UNCHANGED calls

(* Membership and current-game operations, any number of games up to MaxGames.  *)
(* None of them reads games.status or games.game_state, which only the board    *)
(* operations of SpecBoard write.                                               *)
Next ==
  \/ CreateGame
  \/ RequestJoinGame
  \/ ApprovePlayer
  \/ RejectPlayer
  \/ RemovePlayer
  \/ DeleteGame
  \/ LeaveGame
  \/ SetCurrentGameForUser

Spec == Init /\ [][Next]_vars

(* The operations that read or write the membership, the turn order, the status  *)
(* or the board, followed on the first game: reorder, generate and the status    *)
(* change read and write the rows of their own game only.  setCurrentGameForUser *)
(* writes is_current alone, which none of them reads; Spec covers it.  The board *)
(* is drawn from one random source here; SpecLayout draws it from all of them.   *)
CreateFirstGame == nextGameId = 1 /\ CreateGame

NextBoard ==
  \/ CreateFirstGame
  \/ RequestJoinGame
  \/ ApprovePlayer
  \/ RejectPlayer
  \/ RemovePlayer
  \/ DeleteGame
  \/ LeaveGame
  \/ ReorderPlayerOrder
  \/ UpdateGameStatus
  \/ GenerateLayoutFirstSource

SpecBoard == Init /\ [][NextBoard]_vars

(* The board generator alone, on up to MaxGames games, over every random source. *)
NextLayout ==
  \/ CreateGame
  \/ GenerateGameLayout

SpecLayout == Init /\ [][NextLayout]_vars

\* generateGameLayout with the standard preset, which draws no random number.
GenerateStandardLayout ==
  /\ \E g \in InputGameIds, e \in Emails :
       generateGameLayout(g, e, "standard", RandomSource(0, RandomCalls))
  /\ UNCHANGED calls

(* Every operation, one at a time, setCurrentGameForUser included, followed *)
(* on the first game; the board is the standard one.                        *)
NextFrame ==
  \/ CreateFirstGame
  \/ RequestJoinGame
  \/ ApprovePlayer
  \/ RejectPlayer
  \/ RemovePlayer
  \/ DeleteGame
  \/ LeaveGame
  \/ SetCurrentGameForUser
  \/ ReorderPlayerOrder
  \/ UpdateGameStatus
  \/ GenerateStandardLayout

SpecFrame == Init /\ [][NextFrame]_vars

(* ------------- createGame and requestJoinGame, query by query ---------- *)
(* Each await of a pool.query is one step; requests r1, r2 run concurrently *)
(* on the shared tables.                                                    *)
Creating == {p \in Requests : calls[p].pc \in {"code", "current", "insertGame"}}

\* createGame is called: generateJoinCode starts at attempt 0.
StartCreateGame(p, name, creatorEmail) ==
  /\ calls[p].pc = "idle"
  /\ nextGameId + Cardinality(Creating) <= MaxGames
  /\ nextPlayerId + Cardinality(Creating) <= MaxPlayerRows
  /\ calls' = [calls EXCEPT ![p] = [Idle EXCEPT !.pc = "code", !.name = name,
                                                !.email = creatorEmail]]
  /\ UNCHANGED <<tables, result>>

\* Mutant: after the last colliding draw the loop hands the drawn code back.
GenerateJoinCodeAttemptKeepsLast(p) ==
  /\ calls[p].pc = "code"
  /\ \E code \in Codes :
       IF CodeUnused(code) \/ calls[p].attempt + 1 >= MaxAttempts
       THEN /\ calls' = [calls EXCEPT ![p].pc = "current", ![p].joinCode = code]
            /\ UNCHANGED result
       ELSE /\ calls' = [calls EXCEPT ![p].attempt = @ + 1]
            /\ UNCHANGED result
  /\ UNCHANGED tables

\* One pass of the loop of generateJoinCode with `code` as the code drawn:
\* SELECT it, return it if no game holds it, else go on or give up.
JoinCodePass(p, code) ==
  /\ calls[p].pc = "code"
  /\ IF CodeUnused(code)
     THEN /\ calls' = [calls EXCEPT ![p].pc = "current", ![p].joinCode = code]
          /\ UNCHANGED result
     ELSE IF calls[p].attempt + 1 < MaxAttempts
     THEN /\ calls' = [calls EXCEPT ![p].attempt = @ + 1]
          /\ UNCHANGED result
     ELSE /\ calls' = [calls EXCEPT ![p] = Idle]
          /\ result' = Result("createGame", FALSE, TRUE, ErrNoUniqueCode, NoStatus)
  /\ UNCHANGED tables

\* One pass of the loop of generateJoinCode: draw a code, SELECT it.
GenerateJoinCodeAttempt(p) == \E code \in Codes : JoinCodePass(p, code)

\* SELECT 1 FROM game_players WHERE player_email = ? AND is_current = 1
ReadExistingCurrent(p) ==
  /\ calls[p].pc = "current"
  /\ calls' = [calls EXCEPT ![p].pc = "insertGame",
                            ![p].markCurrent = (ExistingCurrent(calls[p].email) = {})]
  /\ UNCHANGED <<tables, result>>

\* INSERT INTO games ...; gameId = result.insertId
InsertGameRow(p) ==
  /\ calls[p].pc = "insertGame"
  /\ games' = InsertGame(games, nextGameId, calls[p].name, calls[p].joinCode, calls[p].email)
  /\ nextGameId' = nextGameId + 1
  /\ calls' = [calls EXCEPT ![p].pc = "insertPlayer", ![p].gameId = nextGameId]
  /\ UNCHANGED <<players, nextPlayerId, result>>

\* A row of game_players can only be inserted for a game that exists (foreign key).
GameExists(gameId) == \E g \in games : g.id = gameId

\* INSERT INTO game_players (game_id, player_email, status, is_current) VALUES (?, ?, 'admin', ?)
InsertAdminRow(p) ==
  /\ calls[p].pc = "insertPlayer"
  /\ players' = InsertPlayer(players, nextPlayerId, calls[p].gameId, calls[p].email,
                             "admin", IF calls[p].markCurrent THEN 1 ELSE 0)
  /\ nextPlayerId' = nextPlayerId + 1
  /\ calls' = [calls EXCEPT ![p].pc = "load"]
  /\ UNCHANGED <<games, nextGameId, result>>

\* const game = await getGame(gameId); if (!game) throw
LoadCreatedGame(p) ==
  /\ calls[p].pc = "load"
  /\ result' = IF getGame(calls[p].gameId) = {}
               THEN Result("createGame", FALSE, TRUE, ErrLoadAfterCreate, NoStatus)
               ELSE Result("createGame", TRUE, FALSE, MsgCreated, "admin")
  /\ calls' = [calls EXCEPT ![p] = Idle]
  /\ UNCHANGED tables

\* requestJoinGame is called: const game = await getGameByJoinCode(joinCode)
RequestJoinLookup(p, joinCode, email) ==
  /\ calls[p].pc = "idle"
  /\ IF getGameByJoinCode(joinCode) = {}
     THEN /\ result' = Result("requestJoinGame", FALSE, FALSE, MsgCodeNotFound, NoStatus)
          /\ UNCHANGED calls
     ELSE \E found \in getGameByJoinCode(joinCode) :
            /\ calls' = [calls EXCEPT ![p] = [Idle EXCEPT !.pc = "getPlayer",
                                                !.email = email, !.joinCode = joinCode,
                                                !.gameId = found.game.id]]
            /\ UNCHANGED result
  /\ UNCHANGED tables

\* const existing = await getPlayer(game.id, email); if (existing) return ...
RequestJoinGetPlayer(p) ==
  /\ calls[p].pc = "getPlayer"
  /\ IF getPlayer(calls[p].gameId, calls[p].email) # {}
     THEN \E existing \in getPlayer(calls[p].gameId, calls[p].email) :
            /\ result' = Result("requestJoinGame", TRUE, FALSE,
                                IF existing.status = "waiting"
                                  THEN MsgAlreadyRequested ELSE MsgAlreadyPart,
                                existing.status)
            /\ calls' = [calls EXCEPT ![p] = Idle]
     ELSE /\ calls' = [calls EXCEPT ![p].pc = "insertWaiting"]
          /\ UNCHANGED result
  /\ UNCHANGED tables

ErrForeignKey == "Cannot add or update a child row: a foreign key constraint fails"

\* INSERT INTO game_players (game_id, player_email, status) VALUES (?, ?, 'waiting')
RequestJoinInsert(p) ==
  /\ calls[p].pc = "insertWaiting"
  /\ IF GameExists(calls[p].gameId)
     THEN /\ nextPlayerId <= MaxRaceRows
          /\ players' = InsertPlayer(players, nextPlayerId, calls[p].gameId, calls[p].email,
                                     "waiting", IsCurrentDefault)
          /\ nextPlayerId' = nextPlayerId + 1
          /\ result' = Result("requestJoinGame", TRUE, FALSE, MsgJoinSubmitted, "waiting")
     ELSE /\ result' = Result("requestJoinGame", FALSE, TRUE, ErrForeignKey, NoStatus)
          /\ UNCHANGED <<players, nextPlayerId>>
  /\ calls' = [calls EXCEPT ![p] = Idle]
  /\ UNCHANGED <<games, nextGameId>>

StartCreate == \E p \in Requests, name \in Names, e \in Emails : StartCreateGame(p, name, e)
DrawAndCheckCode == \E p \in Requests : GenerateJoinCodeAttempt(p)
ReadCurrent == \E p \in Requests : ReadExistingCurrent(p)
InsertGameStep == \E p \in Requests : InsertGameRow(p)
InsertAdminStep == \E p \in Requests : InsertAdminRow(p)
LoadStep == \E p \in Requests : LoadCreatedGame(p)
JoinLookup == \E p \in Requests, c \in Codes, e \in Emails : RequestJoinLookup(p, c, e)
JoinGetPlayer == \E p \in Requests : RequestJoinGetPlayer(p)
JoinInsert == \E p \in Requests : RequestJoinInsert(p)

(* Concurrent createGame requests, with games being deleted meanwhile. *)
NextCreateRace ==
  \/ StartCreate
  \/ DrawAndCheckCode
  \/ ReadCurrent
  \/ InsertGameStep
  \/ InsertAdminStep
  \/ LoadStep
  \/ DeleteGame

SpecCreateRace == Init /\ [][NextCreateRace]_vars

(* Concurrent requestJoinGame requests on games created and deleted meanwhile. *)
NextJoinRace ==
  \/ CreateGame
  \/ JoinLookup
  \/ JoinGetPlayer
  \/ JoinInsert
  \/ DeleteGame

SpecJoinRace == Init /\ [][NextJoinRace]_vars

(* ------------------ createGame with a rejected INSERT ------------------ *)
ErrStorageInsertPlayer == "storage error in INSERT INTO game_players"

\* The INSERT of the admin row is rejected: pool.query throws, createGame has no
\* try/catch and no transaction, so the error leaves the call as it is.
InsertAdminRowRejected(p) ==
  /\ calls[p].pc = "insertPlayer"
  /\ result' = Result("createGame", FALSE, TRUE, ErrStorageInsertPlayer, NoStatus)
  /\ calls' = [calls EXCEPT ![p] = Idle]
  /\ UNCHANGED tables

InsertAdminFails == \E p \in Requests : InsertAdminRowRejected(p)

(* Concurrent createGame requests whose second INSERT may be rejected. *)
NextCreateFault ==
  \/ StartCreate
  \/ DrawAndCheckCode
  \/ ReadCurrent
  \/ InsertGameStep
  \/ InsertAdminStep
  \/ InsertAdminFails
  \/ LoadStep

SpecCreateFault == Init /\ [][NextCreateFault]_vars

(* --------------------------- the code drawn ---------------------------- *)
\* Mutant: Math.floor(Math.random() * 1000000), every number below a million.
DrawnNumberFromZero(num) == (num * (JoinCodeSpan + MinJoinCode)) \div RandDen

\* Math.floor(Math.random() * 900000) + 100000, Math.random() being num / RandDen.
DrawnNumber(num) == (num * JoinCodeSpan) \div RandDen + MinJoinCode

RECURSIVE DecimalDigits(_)
\* String(n) of a non-negative integer: its decimal digits, without padding.
DecimalDigits(n) ==
  IF n < 10 THEN <<n>> ELSE Append(DecimalDigits(n \div 10), n % 10)

\* /^[0-9]{6}$/, the test the join-game action applies to an entered code.
IsSixDigits(s) == Len(s) = 6 /\ \A i \in 1 .. Len(s) : s[i] \in 0 .. 9

\* One pass of the loop of generateJoinCode, the code computed from the
\* random number as the code computes it.
GenerateJoinCodeDraw(p) ==
  \E num \in 0 .. (RandDen - 1) : JoinCodePass(p, DrawnNumber(num))

DrawCode == \E p \in Requests : GenerateJoinCodeDraw(p)

\* createGame is called while no other call is under way.
StartCreateAlone == (\A p \in Requests : calls[p].pc = "idle") /\ StartCreate

(* createGame calls, one after the other, that compute their codes. *)
NextJoinCode ==
  \/ StartCreateAlone
  \/ DrawCode
  \/ ReadCurrent
  \/ InsertGameStep
  \/ InsertAdminStep
  \/ LoadStep

SpecJoinCode == Init /\ [][NextJoinCode]_vars

(* Every way a call can end: createGame query by query, with its INSERT    *)
(* rejected or its game deleted before it is read back, next to the        *)
(* membership, order and status operations and the rule violations they    *)
(* report (generateGameLayout's refusals are followed in SpecBoard).       *)
(* Of those only deleteGame writes what createGame reads (the join codes   *)
(* and whether the game exists), so the others are followed while no       *)
(* call is under way, and on one stored game at a time.                    *)
NoCallUnderWay ==
  /\ \A p \in Requests : calls[p].pc = "idle"
  /\ Cardinality(games) <= 1

JoinQuiet == NoCallUnderWay /\ RequestJoinGame
ApproveQuiet == NoCallUnderWay /\ ApprovePlayer
RejectQuiet == NoCallUnderWay /\ RejectPlayer
RemoveQuiet == NoCallUnderWay /\ RemovePlayer
LeaveQuiet == NoCallUnderWay /\ LeaveGame
ReorderQuiet == NoCallUnderWay /\ ReorderPlayerOrder
StatusQuiet == NoCallUnderWay /\ UpdateGameStatus

\* createGame calls that start before any game is stored.
StartEarlyCreate == nextGameId = 1 /\ StartCreate

NextErrors ==
  \/ StartEarlyCreate
  \/ DrawAndCheckCode
  \/ ReadCurrent
  \/ InsertGameStep
  \/ InsertAdminStep
  \/ InsertAdminFails
  \/ LoadStep
  \/ DeleteGame
  \/ JoinQuiet
  \/ ApproveQuiet
  \/ RejectQuiet
  \/ RemoveQuiet
  \/ LeaveQuiet
  \/ ReorderQuiet
  \/ StatusQuiet

SpecErrors == Init /\ [][NextErrors]_vars

(* ------------ setCurrentGameForUser, statement by statement ------------ *)
(* The two UPDATEs run on one connection between beginTransaction and      *)
(* commit: what they write stays with the connection, the rows locked,     *)
(* until commit stores it or rollback drops it.  Any statement after the   *)
(* begin may be rejected by the storage.                                   *)
ErrStorageClear == "storage error in UPDATE game_players SET is_current = 0"
ErrStorageMark == "storage error in UPDATE game_players SET is_current = 1"
ErrStorageCommit == "storage error in COMMIT"

\* The error the statement at hand rejects with.
StorageError(pc) ==
  IF pc = "clear" THEN ErrStorageClear
  ELSE IF pc = "mark" THEN ErrStorageMark ELSE ErrStorageCommit

\* Rows written by the open transactions of the other requests.
LockedByOthers(p) ==
  UNION {calls[q].cleared \cup calls[q].marked : q \in Requests \ {p}}

\* const membership = await getPlayer(gameId, email); if (!membership) return ...
SetCurrentGetPlayer(p, gameId, email) ==
  /\ calls[p].pc = "idle"
  /\ IF getPlayer(gameId, email) = {}
     THEN /\ result' = Result("setCurrentGameForUser", FALSE, FALSE, MsgNotPart, NoStatus)
          /\ UNCHANGED calls
     ELSE /\ calls' = [calls EXCEPT ![p] = [Idle EXCEPT !.pc = "clear", !.email = email,
                                                       !.gameId = gameId]]
          /\ UNCHANGED result
  /\ UNCHANGED tables

\* beginTransaction(); UPDATE game_players SET is_current = 0 WHERE player_email = ?
SetCurrentClear(p) ==
  /\ calls[p].pc = "clear"
  /\ LET ids == {r.id : r \in {q \in players : q.player_email = calls[p].email}}
     IN /\ ids \cap LockedByOthers(p) = {}
        /\ calls' = [calls EXCEPT ![p].pc = "mark", ![p].cleared = ids]
  /\ UNCHANGED <<tables, result>>

\* UPDATE game_players SET is_current = 1 WHERE game_id = ? AND player_email = ?
SetCurrentMark(p) ==
  /\ calls[p].pc = "mark"
  /\ LET ids == {r.id : r \in {q \in players : /\ q.game_id = calls[p].gameId
                                                /\ q.player_email = calls[p].email}}
     IN /\ ids \cap LockedByOthers(p) = {}
        /\ calls' = [calls EXCEPT ![p].pc = "commit", ![p].marked = ids]
  /\ UNCHANGED <<tables, result>>

\* What the transaction of p has written, laid over the stored rows.
WrittenBy(p, ps) ==
  {IF r.id \in calls[p].marked THEN [r EXCEPT !.is_current = 1]
   ELSE IF r.id \in calls[p].cleared THEN [r EXCEPT !.is_current = 0] ELSE r : r \in ps}

\* await connection.commit(); return { ok: true, ... }
SetCurrentCommit(p) ==
  /\ calls[p].pc = "commit"
  /\ players' = WrittenBy(p, players)
  /\ result' = Result("setCurrentGameForUser", TRUE, FALSE, MsgCurrentUpdated, NoStatus)
  /\ calls' = [calls EXCEPT ![p] = Idle]
  /\ UNCHANGED <<games, nextGameId, nextPlayerId>>

\* Mutant: the catch block commits what was written so far instead of rolling back.
SetCurrentRollbackCommits(p) ==
  /\ calls[p].pc \in {"clear", "mark", "commit"}
  /\ players' = WrittenBy(p, players)
  /\ result' = Result("setCurrentGameForUser", FALSE, TRUE, StorageError(calls[p].pc), NoStatus)
  /\ calls' = [calls EXCEPT ![p] = Idle]
  /\ UNCHANGED <<games, nextGameId, nextPlayerId>>

\* catch (error) { await connection.rollback(); throw error }: the statement at
\* hand is rejected, nothing the transaction wrote is stored.
SetCurrentRollback(p) ==
  /\ calls[p].pc \in {"clear", "mark", "commit"}
  /\ players' = players
  /\ result' = Result("setCurrentGameForUser", FALSE, TRUE, StorageError(calls[p].pc), NoStatus)
  /\ calls' = [calls EXCEPT ![p] = Idle]
  /\ UNCHANGED <<games, nextGameId, nextPlayerId>>

SetCurrentStart ==
  \E p \in Requests, g \in InputGameIds, e \in Emails : SetCurrentGetPlayer(p, g, e)
SetCurrentClearStep == \E p \in Requests : SetCurrentClear(p)
SetCurrentMarkStep == \E p \in Requests : SetCurrentMark(p)
SetCurrentCommitStep == \E p \in Requests : SetCurrentCommit(p)
SetCurrentFails == \E p \in Requests : SetCurrentRollback(p)

(* Concurrent setCurrentGameForUser requests whose statements may fail, on  *)
(* memberships that createGame and requestJoinGame add meanwhile.           *)
NextCurrentTx ==
  \/ CreateGame
  \/ RequestJoinGame
  \/ SetCurrentStart
  \/ SetCurrentClearStep
  \/ SetCurrentMarkStep
  \/ SetCurrentCommitStep
  \/ SetCurrentFails

SpecCurrentTx == Init /\ [][NextCurrentTx]_vars

(* setCurrentGameForUser next to the calls that delete membership rows.    *)
(* removePlayer, leaveGame and deleteGame run here while no transaction    *)
(* has written yet, which is where a DELETE is never kept waiting by a row *)
(* lock: in particular between the getPlayer of a setCurrentGameForUser    *)
(* and its beginTransaction.                                               *)
NoRowLocked == \A p \in Requests : calls[p].pc \in {"idle", "clear"}
RemoveUnlocked == NoRowLocked /\ RemovePlayer
LeaveUnlocked == NoRowLocked /\ LeaveGame
DeleteUnlocked == NoRowLocked /\ DeleteGame

NextCurrentRace ==
  \/ CreateGame
  \/ RequestJoinGame
  \/ RemoveUnlocked
  \/ LeaveUnlocked
  \/ DeleteUnlocked
  \/ SetCurrentStart
  \/ SetCurrentClearStep
  \/ SetCurrentMarkStep
  \/ SetCurrentCommitStep
  \/ SetCurrentFails

SpecCurrentRace == Init /\ [][NextCurrentRace]_vars

(* ------ reorderPlayerOrder and generateGameLayout, query by query ------ *)
(* Each call reads the game with getGame (its two SELECTs taken together), *)
(* asks isAdmin, and writes the whole game_state with saveGameState; other *)
(* requests run between these queries.                                     *)

\* reorderPlayerOrder is called: const game = await getGame(gameId), then the
\* checks of the game and of its status.
ReorderGetGame(p, gameId, adminEmail, newOrder) ==
  LET op(msg) == Result("reorderPlayerOrder", FALSE, FALSE, msg, NoStatus)
  IN /\ calls[p].pc = "idle"
     /\ IF getGame(gameId) = {}
        THEN result' = op(MsgGameNotFound) /\ UNCHANGED calls
        ELSE \E found \in getGame(gameId) :
               IF found.game.status # "not_started"
               THEN result' = op(MsgCannotReorder) /\ UNCHANGED calls
               ELSE /\ calls' = [calls EXCEPT ![p] =
                                   [Idle EXCEPT !.pc = "reorderIsAdmin", !.gameId = gameId,
                                                !.email = adminEmail, !.newOrder = newOrder,
                                                !.status = found.game.status,
                                                !.confirmed =
                                                  EmailsWhere(found.players,
                                                              {"admin", "confirmed"}),
                                                !.gameState = found.game.gameState]]
                    /\ UNCHANGED result
     /\ UNCHANGED tables

\* if (!(await isAdmin(gameId, adminEmail))) return ...; then the order is
\* normalized and checked against the players that getGame returned.
ReorderIsAdmin(p) ==
  LET op(msg) == Result("reorderPlayerOrder", FALSE, FALSE, msg, NoStatus)
      confirmed == calls[p].confirmed
      normalized == normalizePlayerOrder(calls[p].newOrder, confirmed)
  IN /\ calls[p].pc = "reorderIsAdmin"
     /\ IF ~ isAdmin(calls[p].gameId, calls[p].email)
        THEN result' = op(MsgNotAdmin) /\ calls' = [calls EXCEPT ![p] = Idle]
        ELSE IF \/ Len(normalized) # Len(confirmed)
                \/ \E i \in 1 .. Len(confirmed) : confirmed[i] \notin Range(normalized)
        THEN result' = op(MsgBadOrder) /\ calls' = [calls EXCEPT ![p] = Idle]
        ELSE /\ calls' = [calls EXCEPT ![p].pc = "reorderSave",
                                       ![p].gameState.playerOrder = normalized]
             /\ UNCHANGED result
     /\ UNCHANGED tables

\* Mutant: the save is refused when the stored tiles are no longer the ones that
\* were read.
ReorderSaveIfUnchanged(p) ==
  /\ calls[p].pc = "reorderSave"
  /\ IF \A g \in games : g.id = calls[p].gameId
                           => g.game_state.tiles = calls[p].gameState.tiles
     THEN /\ games' = saveGameState(games, calls[p].gameId, calls[p].gameState)
          /\ result' = Result("reorderPlayerOrder", TRUE, FALSE, MsgOrderUpdated, NoStatus)
     ELSE /\ games' = games
          /\ result' = Result("reorderPlayerOrder", FALSE, FALSE, MsgCannotReorder, NoStatus)
  /\ calls' = [calls EXCEPT ![p] = Idle]
  /\ UNCHANGED <<players, nextGameId, nextPlayerId>>

\* await saveGameState(gameId, game.gameState); return { ok: true, ... }
ReorderSave(p) ==
  /\ calls[p].pc = "reorderSave"
  /\ games' = saveGameState(games, calls[p].gameId, calls[p].gameState)
  /\ result' = Result("reorderPlayerOrder", TRUE, FALSE, MsgOrderUpdated, NoStatus)
  /\ calls' = [calls EXCEPT ![p] = Idle]
  /\ UNCHANGED <<players, nextGameId, nextPlayerId>>

\* generateGameLayout is called: const game = await getGame(gameId)
LayoutGetGame(p, gameId, adminEmail, preset) ==
  /\ calls[p].pc = "idle"
  /\ IF getGame(gameId) = {}
     THEN /\ result' = Result("generateGameLayout", FALSE, FALSE, MsgGameNotFound, NoStatus)
          /\ UNCHANGED calls
     ELSE \E found \in getGame(gameId) :
            /\ calls' = [calls EXCEPT ![p] =
                           [Idle EXCEPT !.pc = "layoutIsAdmin", !.gameId = gameId,
                                        !.email = adminEmail, !.preset = preset,
                                        !.status = found.game.status,
                                        !.confirmed =
                                          EmailsWhere(found.players, {"admin", "confirmed"}),
                                        !.gameState = found.game.gameState]]
            /\ UNCHANGED result
  /\ UNCHANGED tables

\* if (!(await isAdmin(gameId, adminEmail))) return ...; then the check of the
\* status that getGame returned, the tiles and the normalized order.
LayoutIsAdmin(p, rnd) ==
  LET op(msg) == Result("generateGameLayout", FALSE, FALSE, msg, NoStatus)
      shuffledTerrains == IF calls[p].preset = "standard" THEN StandardTerrains
                          ELSE shuffle(terrains, rnd, 1)
      shuffledTokens == IF calls[p].preset = "standard" THEN StandardTokens
                        ELSE shuffle(tokens, rnd, Len(terrains))
      tiles == BuildTiles(shuffledTerrains, shuffledTokens, 1)
  IN /\ calls[p].pc = "layoutIsAdmin"
     /\ IF ~ isAdmin(calls[p].gameId, calls[p].email)
        THEN result' = op(MsgNotAdmin) /\ calls' = [calls EXCEPT ![p] = Idle]
        ELSE IF calls[p].status # "not_started"
        THEN result' = op(MsgLayoutPhase) /\ calls' = [calls EXCEPT ![p] = Idle]
        ELSE /\ calls' = [calls EXCEPT ![p].pc = "layoutSave",
                            ![p].gameState =
                               [tiles |-> tiles,
                                playerOrder |->
                                  normalizePlayerOrder(calls[p].gameState.playerOrder,
                                                       calls[p].confirmed)]]
             /\ UNCHANGED result
     /\ UNCHANGED tables

\* await saveGameState(gameId, game.gameState); return { ok: true, ... }
LayoutSave(p) ==
  /\ calls[p].pc = "layoutSave"
  /\ games' = saveGameState(games, calls[p].gameId, calls[p].gameState)
  /\ result' = Result("generateGameLayout", TRUE, FALSE, MsgLayoutGenerated, NoStatus)
  /\ calls' = [calls EXCEPT ![p] = Idle]
  /\ UNCHANGED <<players, nextGameId, nextPlayerId>>

\* newOrder payloads that list every member once.
FullOrders == {o \in Orders : Len(o) = Cardinality(Emails) /\ Range(o) = Emails}

\* One request reorders and the other one generates the layout.
ReorderRequest == "r1"
LayoutRequest == "r2"

ReorderStart ==
  \E g \in InputGameIds, e \in Emails, o \in FullOrders :
    ReorderGetGame(ReorderRequest, g, e, o)
ReorderAdminStep == \E p \in Requests : ReorderIsAdmin(p)
ReorderSaveStep == \E p \in Requests : ReorderSave(p)
LayoutStart ==
  \E g \in InputGameIds, e \in Emails, preset \in Presets :
    LayoutGetGame(LayoutRequest, g, e, preset)
LayoutAdminStep == \E p \in Requests : LayoutIsAdmin(p, RandomSource(0, RandomCalls))
LayoutSaveStep == \E p \in Requests : LayoutSave(p)

(* Concurrent reorderPlayerOrder and generateGameLayout requests on the first *)
(* game, while its status stays not_started; members join and get approved     *)
(* while no call is under way.                                                 *)
NextBoardRace ==
  \/ CreateFirstGame
  \/ JoinQuiet
  \/ ApproveQuiet
  \/ ReorderStart
  \/ ReorderAdminStep
  \/ ReorderSaveStep
  \/ LayoutStart
  \/ LayoutAdminStep
  \/ LayoutSaveStep

SpecBoardRace == Init /\ [][NextBoardRace]_vars

(* One reorderPlayerOrder or generateGameLayout request at a time on the first *)
(* game, whose admin changes its status between the queries of the request.    *)
ReorderAlone == calls[LayoutRequest].pc = "idle" /\ ReorderStart
LayoutAlone == calls[ReorderRequest].pc = "idle" /\ LayoutStart

NextStatusRace ==
  \/ CreateFirstGame
  \/ JoinQuiet
  \/ ApproveQuiet
  \/ UpdateGameStatus
  \/ ReorderAlone
  \/ ReorderAdminStep
  \/ ReorderSaveStep
  \/ LayoutAlone
  \/ LayoutAdminStep
  \/ LayoutSaveStep

SpecStatusRace == Init /\ [][NextStatusRace]_vars

(* -------------- the reorder-players action of the game route ----------- *)
(* The form carries the order the page showed (orderJson), the player to   *)
(* move (targetEmail) and the direction; the action moves the player one   *)
(* place in that order and hands the result to reorderPlayerOrder.         *)
MsgInvalidPayload == "Invalid order payload."
MsgNotInOrder == "Player not found in order."

Directions == {"up", "down", ""}
MoveOrders == UNION {[1 .. n -> Emails] : n \in 0 .. MaxMoveLen}
\* What the form field orderJson may hold: an array of emails, or text that
\* JSON.parse rejects.
OrderPayloads ==
  {[parses |-> TRUE, order |-> o] : o \in MoveOrders} \cup {[parses |-> FALSE, order |-> <<>>]}

\* order.findIndex((email) => email === targetEmail), counted from 0
findIndex(order, targetEmail) ==
  IF \E i \in 1 .. Len(order) : order[i] = targetEmail
  THEN (CHOOSE i \in 1 .. Len(order) :
          /\ order[i] = targetEmail
          /\ \A j \in 1 .. (i - 1) : order[j] # targetEmail) - 1
  ELSE -1

\* Mutant: moving the first player up puts them last.
MoveEntryWraps(order, index, direction) ==
  IF direction = "up"
  THEN IF index > 0 THEN Swap(order, index, index + 1) ELSE Swap(order, 1, Len(order))
  ELSE IF direction = "down" /\ index < Len(order) - 1
  THEN Swap(order, index + 2, index + 1)
  ELSE order

\* if (direction === 'up' && index > 0) swap(index - 1, index)
\* else if (direction === 'down' && index < order.length - 1) swap(index + 1, index)
\* (index counts from 0, the entries of order from 1)
MoveEntry(order, index, direction) ==
  IF direction = "up" /\ index > 0
  THEN Swap(order, index, index + 1)
  ELSE IF direction = "down" /\ index < Len(order) - 1
  THEN Swap(order, index + 2, index + 1)
  ELSE order

\* case 'reorder-players', up to the call of reorderPlayerOrder
ReorderPlayersMove(p, gameId, userEmail, orderJson, targetEmail, direction) ==
  LET op(msg) == Result("reorder-players", FALSE, FALSE, msg, NoStatus)
      index == findIndex(orderJson.order, targetEmail)
  IN /\ calls[p].pc = "idle"
     /\ IF ~ orderJson.parses
        THEN result' = op(MsgInvalidPayload) /\ UNCHANGED calls
        ELSE IF index = -1
        THEN result' = op(MsgNotInOrder) /\ UNCHANGED calls
        ELSE /\ calls' = [calls EXCEPT ![p] =
                            [Idle EXCEPT !.pc = "reorder", !.gameId = gameId,
                                         !.email = userEmail,
                                         !.order = orderJson.order,
                                         !.targetEmail = targetEmail,
                                         !.direction = direction,
                                         !.newOrder = MoveEntry(orderJson.order, index,
                                                                direction)]]
             /\ UNCHANGED result
     /\ UNCHANGED tables

\* const result = await reorderPlayerOrder(gameId, user.email, order)
ReorderPlayersSubmit(p) ==
  /\ calls[p].pc = "reorder"
  /\ reorderPlayerOrder(calls[p].gameId, calls[p].email, calls[p].newOrder)
  /\ calls' = [calls EXCEPT ![p] = Idle]

MoveRequest == "r1"

\* The form is sent from the page of a game that is stored.
ShownGameIds == {g.id : g \in games}

ReorderPlayersReceived ==
  \E g \in ShownGameIds, e \in Emails, o \in OrderPayloads, t \in Emails, d \in Directions :
    ReorderPlayersMove(MoveRequest, g, e, o, t, d)
ReorderPlayersCall == ReorderPlayersSubmit(MoveRequest)

NextMove ==
  \/ CreateFirstGame
  \/ JoinQuiet
  \/ ApproveQuiet
  \/ ReorderPlayersReceived
  \/ ReorderPlayersCall

SpecMove == Init /\ [][NextMove]_vars

(* Every operation that is not createGame or deleteGame, one call at a time *)
(* on the first game, requestJoinGame query by query so that a member who   *)
(* was removed, rejected or has left can ask again (up to MaxRaceRows rows  *)
(* of game_players).                                                        *)
JoinRequest == "r1"
JoinLookupAlone ==
  /\ \A p \in Requests : calls[p].pc = "idle"
  /\ \E c \in Codes, e \in Emails : RequestJoinLookup(JoinRequest, c, e)
SetCurrentQuiet == NoCallUnderWay /\ SetCurrentGameForUser
\* The board operations and the status change as the creator of a stored
\* game calls them.
ReorderByCreator ==
  /\ NoCallUnderWay
  /\ \E g \in games, o \in Orders : reorderPlayerOrder(g.id, g.created_by, o)
  /\ UNCHANGED calls
StatusByCreator ==
  /\ NoCallUnderWay
  /\ \E g \in games, st \in GAME_STATUSES : updateGameStatus(g.id, g.created_by, st)
  /\ UNCHANGED calls
GenerateByCreator ==
  /\ NoCallUnderWay
  /\ \E g \in games :
       generateGameLayout(g.id, g.created_by, "standard", RandomSource(0, RandomCalls))
  /\ UNCHANGED calls

NextRoles ==
  \/ CreateFirstGame
  \/ JoinLookupAlone
  \/ JoinGetPlayer
  \/ JoinInsert
  \/ ApproveQuiet
  \/ RejectQuiet
  \/ RemoveQuiet
  \/ LeaveQuiet
  \/ SetCurrentQuiet
  \/ ReorderByCreator
  \/ StatusByCreator
  \/ GenerateByCreator

SpecRoles == Init /\ [][NextRoles]_vars

(* ============================== properties ============================= *)
RowsOfMember(ps, email) == {r \in ps : r.player_email = email}
CurrentRowsOf(ps, email) == {r \in ps : r.player_email = email /\ r.is_current = 1}
RowsOfPair(ps, gameId, email) == {r \in ps : r.game_id = gameId /\ r.player_email = email}
HoldsAdmin(ps, gameId, email) ==
  \E r \in ps : r.game_id = gameId /\ r.player_email = email /\ r.status = "admin"
EligibleOf(ps, gameId) ==
  {r.player_email : r \in {q \in ps : q.game_id = gameId /\ q.status \in {"admin", "confirmed"}}}
IsPermutationOf(order, S) ==
  Len(order) = Cardinality(S) /\ {order[i] : i \in 1 .. Len(order)} = S

\* C1: with every operation atomic, each member has at most one membership row,
\* counted over all games together, whose is_current flag is set.
AtMostOneCurrentPerMember ==
  \A e \in Emails : Cardinality(CurrentRowsOf(players, e)) <= 1

\* A member with rows in two games has just moved the flag with setCurrentGameForUser.
WitnessCurrentAmongTwoRows ==
  /\ result.op = "setCurrentGameForUser" /\ result.ok
  /\ \E e \in Emails : /\ Cardinality(RowsOfMember(players, e)) >= 2
                       /\ Cardinality(CurrentRowsOf(players, e)) = 1

\* C2: every existing game has exactly one membership with status admin, and it is
\* the row of the game's creator.
ExactlyOneAdminTheCreator ==
  \A g \in games :
    LET admins == {r \in players : r.game_id = g.id /\ r.status = "admin"}
    IN Cardinality(admins) = 1 /\ \A r \in admins : r.player_email = g.created_by

\* C3 as stated: in every reachable state a non-empty playerOrder is a permutation
\* of exactly the admin and confirmed members of its game.
TurnOrderAlwaysPermutation ==
  \A g \in games :
    g.game_state.playerOrder # <<>>
      => IsPermutationOf(g.game_state.playerOrder, EligibleOf(players, g.id))

\* C3 as amended: right after createGame and after every successful
\* reorderPlayerOrder or generateGameLayout on a game, that game's playerOrder is a
\* permutation of exactly its admin and confirmed members.
TurnOrderPermutationAfterWrite ==
  [][result'.ok =>
     \A gid \in GameIds :
       ( /\ result'.ok
         /\ \/ /\ result'.op = "createGame"
               /\ gid = nextGameId
               /\ \E n \in Names, e \in Emails : createGame(n, e)
            \/ /\ result'.op = "reorderPlayerOrder"
               /\ \E e \in Emails, o \in Orders : reorderPlayerOrder(gid, e, o)
            \/ /\ result'.op = "generateGameLayout"
               /\ \E e \in Emails, preset \in Presets, seed \in Seeds :
                    generateGameLayout(gid, e, preset, RandomSource(seed, RandomCalls)) )
       => /\ \E g \in games' : g.id = gid
          /\ \A g \in games' :
               g.id = gid => IsPermutationOf(g.game_state.playerOrder,
                                             EligibleOf(players', gid))]_vars

\* A layout was just generated for a game whose order had been changed to start
\* with a member other than the creator.
WitnessGenerateKeepsReordered ==
  /\ result.op = "generateGameLayout" /\ result.ok
  /\ \E g \in games : /\ Len(g.game_state.playerOrder) = 2
                      /\ g.game_state.playerOrder[1] # g.created_by
                      /\ g.game_state.tiles # <<>>

\* C4: under any interleaving of the queries of concurrent createGame calls and
\* deleteGame, no two games existing together hold the same join code.
JoinCodesUnique ==
  \A g \in games, h \in games : g.join_code = h.join_code => g.id = h.id

\* C5: there is at most one membership row per (game, member), also when two
\* requestJoinGame calls interleave between their lookup and their insert.
OneRowPerGameAndMember ==
  \A r \in players, q \in players :
    (r.game_id = q.game_id /\ r.player_email = q.player_email) => r.id = q.id

\* C6: a successful createGame(name, creator) adds exactly one game (not_started,
\* playerOrder = [creator], no tiles, created_by = creator) and exactly one
\* membership (that game, creator, admin), and changes no other row.
CreateGameAddsOneGameOneAdmin ==
  [][(result'.op = "createGame" /\ result'.ok) =>
     \A n \in Names, e \in Emails :
       createGame(n, e)
       => \E g \in games', r \in players' :
            /\ g \notin games /\ games' = games \cup {g}
            /\ \A h \in games : h.id # g.id
            /\ g.name = n /\ g.created_by = e /\ g.status = "not_started"
            /\ g.game_state.playerOrder = <<e>> /\ g.game_state.tiles = <<>>
            /\ r \notin players /\ players' = players \cup {r}
            /\ \A q \in players : q.id # r.id
            /\ r.game_id = g.id /\ r.player_email = e /\ r.status = "admin"]_vars

\* A second game was just created next to an existing one.
WitnessSecondGameCreated ==
  /\ result.op = "createGame" /\ result.ok
  /\ Cardinality(games) = 2 /\ Cardinality(players) >= 2

\* C7: createGame sets is_current on the creator's new admin row exactly when the
\* creator had no current row in any game at the call; the rows that existed are
\* left as they were.
CreateGameMarksCurrentIffNone ==
  [][(result'.op = "createGame" /\ result'.ok) =>
     \A n \in Names, e \in Emails :
       createGame(n, e)
       => /\ players \subseteq players'
          /\ players' # players
          /\ \A r \in players' \ players :
               (r.is_current = 1) <=> (CurrentRowsOf(players, e) = {})]_vars

\* The game just created belongs to a creator who already had a current game: the
\* new admin row is not current and the older one still is.
WitnessCreatedNotCurrent ==
  /\ result.op = "createGame" /\ result.ok
  /\ \E r \in players, q \in players :
       /\ r.game_id = nextGameId - 1 /\ r.status = "admin" /\ r.is_current = 0
       /\ q.player_email = r.player_email /\ q.id < r.id /\ q.is_current = 1

\* C8: a successful setCurrentGameForUser(game, member) leaves exactly one row of
\* the member current, the one of that game; a failing one changes no row. So after
\* any run of such calls the current row is the target of the last successful one.
SetCurrentSelectsTarget ==
  [][result'.op = "setCurrentGameForUser" =>
     \A gid \in InputGameIds, e \in Emails :
       setCurrentGameForUser(gid, e)
       => IF result'.ok
          THEN /\ Cardinality(CurrentRowsOf(players', e)) = 1
               /\ \A r \in CurrentRowsOf(players', e) : r.game_id = gid
               /\ RowsOfPair(players, gid, e) # {}
          ELSE players' = players /\ RowsOfPair(players, gid, e) = {}]_vars

\* The flag was just moved from a member's older row to a newer one.
WitnessCurrentMoved ==
  /\ result.op = "setCurrentGameForUser" /\ result.ok
  /\ \E r \in players, q \in players :
       /\ q.player_email = r.player_email /\ r.id < q.id
       /\ r.is_current = 0 /\ q.is_current = 1

\* C9: requestJoinGame(code, member) fails with "not found" and changes nothing
\* when no game has the code; changes nothing and reports ok with the existing
\* status when the member has a row in that game; otherwise inserts one waiting
\* row. Afterwards the same call is a no-op.
RequestJoinContract ==
  [][result'.op = "requestJoinGame" =>
     \A c \in Codes, e \in Emails :
       requestJoinGame(c, e)
       => LET hit == {g \in games : g.join_code = c} IN
          /\ IF hit = {}
             THEN /\ ~ result'.ok /\ ~ result'.thrown
                  /\ result'.message = MsgCodeNotFound
                  /\ UNCHANGED tables
             ELSE \E g \in hit :
                    IF RowsOfPair(players, g.id, e) # {}
                    THEN /\ result'.ok
                         /\ \E r \in RowsOfPair(players, g.id, e) : result'.status = r.status
                         /\ UNCHANGED tables
                    ELSE /\ result'.ok /\ result'.status = "waiting"
                         /\ games' = games
                         /\ \E r \in players' :
                              /\ r \notin players /\ players' = players \cup {r}
                              /\ r.game_id = g.id /\ r.player_email = e
                              /\ r.status = "waiting"
          /\ \A g \in games' : g.join_code = c => RowsOfPair(players', g.id, e) # {}]_vars

\* A member who was already waiting has just asked again.
WitnessJoinRepeated ==
  /\ result.op = "requestJoinGame" /\ result.ok
  /\ result.message = MsgAlreadyRequested /\ result.status = "waiting"

\* C10: approvePlayer(game, target, actor) fails with "not an admin" and changes
\* nothing when actor holds no admin row of the game; fails with "player not
\* found" and changes nothing when target has no row; otherwise succeeds whatever
\* the row's status was and leaves it confirmed.
ApproveContract ==
  [][result'.op = "approvePlayer" =>
     \A gid \in InputGameIds, t \in Emails, e \in Emails :
       approvePlayer(gid, t, e)
       => IF ~ HoldsAdmin(players, gid, e)
          THEN /\ ~ result'.ok /\ ~ result'.thrown /\ result'.message = MsgNotAdmin
               /\ UNCHANGED tables
          ELSE IF RowsOfPair(players, gid, t) = {}
          THEN /\ ~ result'.ok /\ ~ result'.thrown /\ result'.message = MsgPlayerNotFound
               /\ UNCHANGED tables
          ELSE /\ result'.ok
               /\ RowsOfPair(players', gid, t) # {}
               /\ \A r \in RowsOfPair(players', gid, t) : r.status = "confirmed"
               /\ players' \ RowsOfPair(players', gid, t) = players \ RowsOfPair(players, gid, t)
               /\ games' = games]_vars

\* A member who is not the creator has just been approved.
WitnessWaitingApproved ==
  /\ result.op = "approvePlayer" /\ result.ok
  /\ \E g \in games, r \in players :
       r.game_id = g.id /\ r.player_email # g.created_by /\ r.status = "confirmed"

\* C11: rejectPlayer(game, target, admin), called by an admin of the game, deletes
\* the target's row when its status is waiting and only then; when the row is
\* confirmed or admin, or there is none, it fails with "waiting request not
\* found" and no row is deleted or changed.
RejectContract ==
  [][result'.op = "rejectPlayer" =>
     \A gid \in InputGameIds, t \in Emails, e \in Emails :
       (rejectPlayer(gid, t, e) /\ HoldsAdmin(players, gid, e))
       => IF \E r \in RowsOfPair(players, gid, t) : r.status = "waiting"
          THEN /\ result'.ok
               /\ players' = players \ RowsOfPair(players, gid, t)
               /\ games' = games
          ELSE /\ ~ result'.ok /\ ~ result'.thrown
               /\ result'.message = MsgWaitingNotFound
               /\ UNCHANGED tables]_vars

\* A reject has just failed on a game that has a confirmed member.
WitnessRejectSparesConfirmed ==
  /\ result.op = "rejectPlayer" /\ ~ result.ok /\ result.message = MsgWaitingNotFound
  /\ \E r \in players, q \in players :
       r.status = "confirmed" /\ q.status = "admin" /\ q.game_id = r.game_id

DeleteFreesCode ==
  [][/\ (result'.op = "deleteGame" /\ result'.ok) =>
        \A gid \in InputGameIds, e \in Emails :
          deleteGame(gid, e)
          => /\ \A g \in games' : g.id # gid
             /\ \A r \in players' : r.game_id # gid
             /\ \A g \in games : g.id = gid => \A h \in games' : h.join_code # g.join_code
             /\ games' = {g \in games : g.id # gid}
             /\ players' = {r \in players : r.game_id # gid}
     /\ result'.op = "requestJoinGame" =>
        \A c \in Codes, e \in Emails :
          (requestJoinGame(c, e) /\ \A g \in games : g.join_code # c)
          => /\ ~ result'.ok /\ result'.message = MsgCodeNotFound
             /\ UNCHANGED tables
     /\ \A r \in players' : \E g \in games' : g.id = r.game_id]_vars

\* A join request has just failed on the code of a deleted game: a game was
\* created, none is stored, and the code was not found.
WitnessJoinAfterDelete ==
  /\ result.op = "requestJoinGame" /\ ~ result.ok /\ result.message = MsgCodeNotFound
  /\ nextGameId > 1 /\ games = {} /\ players = {} /\ nextPlayerId > 2

\* C15: approvePlayer, rejectPlayer, removePlayer, deleteGame, reorderPlayerOrder,
\* generateGameLayout and updateGameStatus, called for a game by someone who
\* holds no admin row of that game (no row, waiting or confirmed), return a
\* failed result and leave every games and game_players row as it was: a step
\* that succeeds or changes a row is no call of theirs.
NonAdminChangesNothing ==
  [][(result'.ok \/ games' # games \/ players' # players) =>
     \A gid \in InputGameIds, e \in Emails :
       ~ HoldsAdmin(players, gid, e) =>
         ~ \/ /\ result'.op = "approvePlayer"
              /\ \E t \in Emails : approvePlayer(gid, t, e)
           \/ /\ result'.op = "rejectPlayer"
              /\ \E t \in Emails : rejectPlayer(gid, t, e)
           \/ /\ result'.op = "removePlayer"
              /\ \E t \in Emails : removePlayer(gid, t, e)
           \/ /\ result'.op = "deleteGame"
              /\ deleteGame(gid, e)
           \/ /\ result'.op = "reorderPlayerOrder"
              /\ \E o \in Orders : reorderPlayerOrder(gid, e, o)
           \/ /\ result'.op = "generateGameLayout"
              /\ \E preset \in Presets, seed \in Seeds :
                   generateGameLayout(gid, e, preset, RandomSource(seed, RandomCalls))
           \/ /\ result'.op = "updateGameStatus"
              /\ \E st \in GAME_STATUSES : updateGameStatus(gid, e, st)]_vars

\* A confirmed member of a game has just been refused as "not an admin".
WitnessConfirmedRefused ==
  /\ result.op = "updateGameStatus" /\ ~ result.ok /\ result.message = MsgNotAdmin
  /\ \E g \in games :
       /\ HoldsAdmin(players, g.id, "a@x.com")
       /\ \E r \in RowsOfPair(players, g.id, "b@x.com") : r.status = "confirmed"
       /\ g.status = "not_started"

\* newOrder with the emails outside S dropped.
KeepOnly(order, S) == LET keep(x) == x \in S IN SelectSeq(order, keep)
NoDuplicates(order) ==
  \A i \in 1 .. Len(order), j \in 1 .. Len(order) : order[i] = order[j] => i = j
IsPrefixOf(p, order) == Len(p) <= Len(order) /\ SubSeq(order, 1, Len(p)) = p

\* C16: reorderPlayerOrder(game, actor, newOrder) succeeds exactly when the game
\* exists, its status is not_started, the actor is its admin and newOrder, with
\* the emails that are not admin or confirmed members dropped, repeats no email;
\* then playerOrder becomes that list followed by the members it lacks, a
\* permutation of the admin and confirmed members, and nothing else changes.  In
\* every failing case no row changes, so playerOrder and tiles stay as stored.
ReorderContract ==
  [][result'.op = "reorderPlayerOrder" =>
     IF result'.ok
     THEN \A gid \in InputGameIds, e \in Emails, o \in Orders :
            reorderPlayerOrder(gid, e, o)
            => LET eligible == EligibleOf(players, gid)
                   kept == KeepOnly(o, eligible)
               IN /\ \E g \in games : g.id = gid /\ g.status = "not_started"
                  /\ HoldsAdmin(players, gid, e)
                  /\ NoDuplicates(kept)
                  /\ players' = players
                  /\ \A g \in games : g.id # gid => g \in games'
                  /\ Cardinality(games') = Cardinality(games)
                  /\ \A g \in games, h \in games' :
                       (g.id = gid /\ h.id = gid)
                       => /\ IsPermutationOf(h.game_state.playerOrder, eligible)
                          /\ IsPrefixOf(kept, h.game_state.playerOrder)
                          /\ h = [g EXCEPT !.game_state.playerOrder =
                                                h.game_state.playerOrder]
     ELSE /\ UNCHANGED tables
          /\ \A g \in games :
               g.status = "not_started" =>
                 \A e \in Emails :
                   HoldsAdmin(players, g.id, e) =>
                     \A o \in Orders :
                       NoDuplicates(KeepOnly(o, EligibleOf(players, g.id)))
                       => ~ reorderPlayerOrder(g.id, e, o)]_vars

\* The admin has just put the confirmed member first.
WitnessReordered ==
  /\ result.op = "reorderPlayerOrder" /\ result.ok
  /\ \E g \in games :
       /\ g.game_state.playerOrder = <<"b@x.com", "a@x.com">>
       /\ HoldsAdmin(players, g.id, "a@x.com")

\* C17: with every operation atomic, reorderPlayerOrder and generateGameLayout
\* called on a game whose status is started or finished fail and change no row,
\* so playerOrder and tiles stay as stored: a step of either that succeeds or
\* changes a row is no call on such a game, and they succeed again only once the
\* status is back at not_started.
NoOrderOrLayoutAfterStart ==
  [][(/\ result'.op \in {"reorderPlayerOrder", "generateGameLayout"}
      /\ result'.ok \/ games' # games \/ players' # players) =>
     \A g \in games :
       g.status \in {"started", "finished"} =>
         /\ \A e \in Emails, o \in Orders : ~ reorderPlayerOrder(g.id, e, o)
         /\ \A e \in Emails, preset \in Presets, seed \in Seeds :
              ~ generateGameLayout(g.id, e, preset, RandomSource(seed, RandomCalls))]_vars

\* The admin has just been refused a new layout on a started game that has one.
WitnessLayoutRefusedAfterStart ==
  /\ result.op = "generateGameLayout" /\ ~ result.ok /\ result.message = MsgLayoutPhase
  /\ \E g \in games : g.status = "started" /\ g.game_state.tiles # <<>>

CountWhere(tiles, test(_)) == Cardinality({i \in 1 .. Len(tiles) : test(tiles[i])})
TerrainCount(tiles, terrain) == LET is(t) == t.terrain = terrain IN CountWhere(tiles, is)
TokenCount(tiles, token) == LET is(t) == t.token = token IN CountWhere(tiles, is)

\* 19 tiles numbered 1..19 with the terrain counts of the random mode, the desert
\* without token and with the robber, every other tile with a token and without
\* the robber, and the 18 tokens each as often as the token list has it.
IsRandomModeBoard(tiles) ==
  /\ Len(tiles) = 19
  /\ \A i \in 1 .. 19 : tiles[i].id = i
  /\ TerrainCount(tiles, "wood") = 4 /\ TerrainCount(tiles, "wheat") = 4
  /\ TerrainCount(tiles, "sheep") = 4 /\ TerrainCount(tiles, "brick") = 3
  /\ TerrainCount(tiles, "ore") = 3 /\ TerrainCount(tiles, "desert") = 1
  /\ \A i \in 1 .. 19 :
       IF tiles[i].terrain = "desert"
       THEN tiles[i].token = NullToken /\ tiles[i].hasRobber
       ELSE tiles[i].token # NullToken /\ ~ tiles[i].hasRobber
  /\ TokenCount(tiles, 2) = 1 /\ TokenCount(tiles, 12) = 1
  /\ \A n \in {3, 4, 5, 6, 8, 9, 10, 11} : TokenCount(tiles, n) = 2

\* C19: whatever Math.random() returns during the two shuffles, a successful
\* generateGameLayout without preset stores 19 tiles with ids 1..19 and terrain
\* counts wood 4, wheat 4, sheep 4, brick 3, ore 3, desert 1; the desert has no
\* token and the robber, every other tile a token and no robber, and the tokens
\* are 2 and 12 once and 3, 4, 5, 6, 8, 9, 10, 11 twice each.
RandomLayoutWellFormed ==
  [][(result'.op = "generateGameLayout" /\ result'.ok) =>
     \A h \in games' :
       \/ IsRandomModeBoard(h.game_state.tiles)
       \/ \E g \in games : g.id # h.id /\ g \notin games'
       \/ \A e \in Emails, seed \in Seeds :
            HoldsAdmin(players, h.id, e)
            => ~ generateGameLayout(h.id, e, "none", RandomSource(seed, RandomCalls))]_vars

\* Two games hold boards drawn from different random sources.
WitnessTwoRandomBoards ==
  /\ result.op = "generateGameLayout" /\ result.ok
  /\ \E g \in games, h \in games :
       /\ g.id # h.id
       /\ g.game_state.tiles # <<>> /\ h.game_state.tiles # <<>>
       /\ g.game_state.tiles[1].terrain # "ore" /\ h.game_state.tiles[1].terrain # "ore"
       /\ g.game_state.tiles # h.game_state.tiles

\* The board of the standard preset, tile by tile: terrain and token of the
\* positions 1..19, the desert at position 10 without a token.
CanonicalTerrain ==
  <<"ore", "wheat", "wood", "brick", "wood", "wheat", "brick", "wheat", "sheep", "desert",
    "ore", "brick", "wood", "wheat", "sheep", "wood", "brick", "sheep", "ore">>
CanonicalToken ==
  <<10, 2, 9, 12, 6, 4, 10, 9, 11, NullToken, 3, 8, 5, 4, 11, 8, 5, 6, 3>>
CanonicalBoard ==
  [i \in 1 .. 19 |-> [id |-> i, terrain |-> CanonicalTerrain[i], token |-> CanonicalToken[i],
                      hasRobber |-> (CanonicalTerrain[i] = "desert")]]

\* C20: a successful generateGameLayout with preset standard stores the same
\* sequence of (id, terrain, token, robber) tiles on whatever game, from whatever
\* earlier state and whatever Math.random() would return: every such call stores
\* the one canonical board, so any two of them store identical tiles.
StandardLayoutIsCanonical ==
  [][(result'.op = "generateGameLayout" /\ result'.ok) =>
     \A h \in games' :
       \/ h.game_state.tiles = CanonicalBoard
       \/ \E g \in games : g.id # h.id /\ g \notin games'
       \/ \A e \in Emails, seed \in Seeds :
            HoldsAdmin(players, h.id, e)
            => ~ generateGameLayout(h.id, e, "standard", RandomSource(seed, RandomCalls))]_vars

\* The standard board has just replaced a random one, and another game already
\* held the same board.
WitnessTwoStandardBoards ==
  /\ result.op = "generateGameLayout" /\ result.ok
  /\ \E g \in games, h \in games :
       /\ g.id # h.id
       /\ g.game_state.tiles = h.game_state.tiles
       /\ Len(g.game_state.tiles) = 19
       /\ g.game_state.tiles[10].terrain = "desert" /\ g.game_state.tiles[2].token = 2

\* C21: a successful generateGameLayout with preset standard stores a board with
\* the terrain counts of the random mode (wood 4, wheat 4, sheep 4, brick 3,
\* ore 3, desert 1) and its 18 tokens, the desert with the robber and without a
\* token, the tokens going to the other tiles in sequence.
StandardLayoutHasRandomModeCounts ==
  [][(result'.op = "generateGameLayout" /\ result'.ok) =>
     \A h \in games' :
       \/ IsRandomModeBoard(h.game_state.tiles)
       \/ \E g \in games : g.id # h.id /\ g \notin games'
       \/ \A e \in Emails :
            HoldsAdmin(players, h.id, e)
            => ~ generateGameLayout(h.id, e, "standard", RandomSource(0, RandomCalls))]_vars

\* Empty, or 19 tiles of which at most one has the robber, that one being a
\* desert without a token.
LayoutShapeOk(tiles) ==
  \/ tiles = <<>>
  \/ /\ Len(tiles) = 19
     /\ Cardinality({i \in 1 .. Len(tiles) : tiles[i].hasRobber}) <= 1
     /\ \A i \in 1 .. Len(tiles) :
          tiles[i].hasRobber => tiles[i].terrain = "desert" /\ tiles[i].token = NullToken

\* C22: in every reachable state the tiles of every game are either empty or
\* exactly 19, at most one tile has the robber, and a tile with the robber is a
\* desert without a token; a game is created with empty tiles and its tiles
\* stay empty until a generateGameLayout on it succeeds.
LayoutEmptyOrNineteen ==
  /\ [](\A g \in games : LayoutShapeOk(g.game_state.tiles))
  /\ [][\A h \in games' :
          h.game_state.tiles # <<>>
          => \/ \E g \in games : g.id = h.id /\ g.game_state.tiles # <<>>
             \/ /\ result'.op = "generateGameLayout" /\ result'.ok
                /\ \E g \in games : g.id = h.id /\ g.game_state.tiles = <<>>]_vars

\* A board has been generated and the turn order rewritten since: the 19 tiles,
\* one of them with the robber, are still there.
WitnessLayoutKeptByReorder ==
  /\ result.op = "reorderPlayerOrder" /\ result.ok
  /\ \E g \in games :
       /\ Len(g.game_state.tiles) = 19
       /\ Cardinality({i \in 1 .. 19 : g.game_state.tiles[i].hasRobber}) = 1
       /\ Len(g.game_state.playerOrder) = 2

\* C23: after a successful generateGameLayout, with or without preset, the
\* stored playerOrder is a permutation of exactly the members of the game that
\* were admin or confirmed when the call read it, waiting members left out; the
\* members of the earlier playerOrder that are still eligible come first, in
\* the order they had, and the eligible members it lacked come after them.
GenerateRenormalizesOrder ==
  [][(result'.op = "generateGameLayout" /\ result'.ok) =>
     \A g \in games :
       \/ \A e \in Emails, preset \in Presets :
            ~ generateGameLayout(g.id, e, preset, RandomSource(0, RandomCalls))
       \/ \E h \in games' :
            /\ h.id = g.id
            /\ LET eligible == EligibleOf(players, g.id)
                   kept == KeepOnly(g.game_state.playerOrder, eligible)
                   order == h.game_state.playerOrder
               IN /\ IsPermutationOf(order, eligible)
                  /\ IsPrefixOf(kept, order)
                  /\ \A r \in players :
                       r.game_id = g.id /\ r.status = "waiting"
                       => r.player_email \notin Range(order)]_vars

\* A board was just generated for a game whose playerOrder has the creator
\* first and a confirmed member after them.
WitnessOrderAfterGenerate ==
  /\ result.op = "generateGameLayout" /\ result.ok
  /\ \E g \in games :
       /\ Len(g.game_state.tiles) = 19
       /\ Len(g.game_state.playerOrder) = 2
       /\ g.game_state.playerOrder[1] = g.created_by
       /\ \E r \in players : /\ r.game_id = g.id /\ r.status = "confirmed"
                             /\ r.player_email = g.game_state.playerOrder[2]

\* C24: setCurrentGameForUser(game, member) returns a failure and changes no
\* row when the member has no row in the game, and starts its transaction only
\* when there is one; of a call under way no statement but the commit changes
\* a stored row, the commit stores both writes at once (the target row current,
\* every other row of the member that the clearing UPDATE met not current), and
\* a storage error at any statement after the begin (so also
\* after the clearing UPDATE and before the commit) leaves every stored row as
\* it was, the member's current row included, and is thrown to the caller.
SetCurrentAllOrNothing ==
  [][/\ (result'.op = "setCurrentGameForUser" /\ ~ result'.ok /\ ~ result'.thrown
           /\ calls' = calls)
        => (UNCHANGED tables /\ result'.message = MsgNotPart)
     /\ \A p \in Requests :
          /\ (calls[p].pc = "idle" /\ calls'[p].pc = "clear")
             => (RowsOfPair(players, calls'[p].gameId, calls'[p].email) # {} /\ UNCHANGED tables)
          /\ (calls[p].pc \in {"clear", "mark", "commit"} /\ calls'[p] # calls[p])
             => IF calls'[p].pc # "idle"
                THEN UNCHANGED tables
                ELSE IF result'.thrown
                THEN /\ UNCHANGED tables
                     /\ result'.op = "setCurrentGameForUser" /\ ~ result'.ok
                     /\ \A e \in Emails : CurrentRowsOf(players', e) = CurrentRowsOf(players, e)
                ELSE /\ calls[p].pc = "commit" /\ result'.ok
                     /\ result'.op = "setCurrentGameForUser"
                     /\ RowsOfPair(players', calls[p].gameId, calls[p].email) # {}
                     /\ \A r \in players' :
                          IF r.player_email # calls[p].email THEN r \in players
                          ELSE IF r.game_id = calls[p].gameId THEN r.is_current = 1
                          ELSE IF r.id \in calls[p].cleared THEN r.is_current = 0
                          ELSE r \in players]_vars

\* The UPDATE that marks the target was rejected after the clearing UPDATE had
\* run: the member, who has a row in two games, still has the one current row.
WitnessFaultAfterClear ==
  /\ result.op = "setCurrentGameForUser" /\ result.thrown
  /\ result.message = ErrStorageMark
  /\ \A p \in Requests : calls[p].pc = "idle"
  /\ \E e \in Emails : /\ Cardinality(RowsOfMember(players, e)) = 2
                       /\ Cardinality(CurrentRowsOf(players, e)) = 1

\* C25: createGame is all-or-nothing: once a createGame call has returned or
\* thrown, the game row it inserted is stored only together with the creator's
\* admin row; so a stored game without that row belongs to a call that stands
\* between its two INSERTs.
NoGameLeftWithoutAdmin ==
  \A g \in games :
    \/ HoldsAdmin(players, g.id, g.created_by)
    \/ \E p \in Requests : calls[p].pc = "insertPlayer" /\ calls[p].gameId = g.id

\* No call that breaks a rule (unknown join code, actor not admin, target not
\* found, an admin leaving or being removed, wrong status, invalid order) is
\* the step at hand, given that the step did not end as a returned failure
\* that left the tables alone.
NoRuleBreakingCall ==
  /\ result'.op = "requestJoinGame" =>
       \A c \in Codes, e \in Emails :
         (\A g \in games : g.join_code # c) => ~ requestJoinGame(c, e)
  /\ result'.op = "approvePlayer" =>
       \A gid \in InputGameIds, t \in Emails, e \in Emails :
         (~ HoldsAdmin(players, gid, e) \/ RowsOfPair(players, gid, t) = {})
         => ~ approvePlayer(gid, t, e)
  /\ result'.op = "rejectPlayer" =>
       \A gid \in InputGameIds, t \in Emails, e \in Emails :
         (\/ ~ HoldsAdmin(players, gid, e)
          \/ \A r \in RowsOfPair(players, gid, t) : r.status # "waiting")
         => ~ rejectPlayer(gid, t, e)
  /\ result'.op = "removePlayer" =>
       \A gid \in InputGameIds, t \in Emails, e \in Emails :
         (\/ ~ HoldsAdmin(players, gid, e)
          \/ RowsOfPair(players, gid, t) = {}
          \/ HoldsAdmin(players, gid, t))
         => ~ removePlayer(gid, t, e)
  /\ result'.op = "deleteGame" =>
       \A gid \in InputGameIds, e \in Emails :
         ~ HoldsAdmin(players, gid, e) => ~ deleteGame(gid, e)
  /\ result'.op = "leaveGame" =>
       \A gid \in InputGameIds, e \in Emails :
         (RowsOfPair(players, gid, e) = {} \/ HoldsAdmin(players, gid, e))
         => ~ leaveGame(gid, e)
  /\ result'.op = "reorderPlayerOrder" =>
       \A gid \in InputGameIds, e \in Emails, o \in Orders :
         (\/ \A g \in games : g.id = gid => g.status # "not_started"
          \/ ~ HoldsAdmin(players, gid, e)
          \/ ~ NoDuplicates(KeepOnly(o, EligibleOf(players, gid))))
         => ~ reorderPlayerOrder(gid, e, o)
  /\ result'.op = "updateGameStatus" =>
       \A gid \in InputGameIds, e \in Emails, st \in GAME_STATUSES :
         ~ HoldsAdmin(players, gid, e) => ~ updateGameStatus(gid, e, st)

\* C26 as stated: a call that breaks a rule ends as a returned result with
\* ok = false, never as a thrown Error and never with a write; and an Error is
\* thrown only when the join codes are exhausted or the storage rejects a query.
OnlyExhaustionAndStorageThrow ==
  [][/\ (result'.ok \/ result'.thrown \/ tables' # tables) => NoRuleBreakingCall
     /\ result'.thrown =>
          result'.message \in {ErrNoUniqueCode, ErrStorageInsertPlayer}]_vars

\* C26 as amended: a call that breaks a rule ends as a returned result with
\* ok = false, never as a thrown Error and never with a write; and an Error is
\* thrown only when the join codes are exhausted, when the game createGame has
\* just inserted cannot be read back, or when the storage rejects a query.
RuleViolationsAreReturned ==
  [][/\ (result'.ok \/ result'.thrown \/ tables' # tables) => NoRuleBreakingCall
     /\ result'.thrown =>
          /\ result'.op = "createGame" /\ ~ result'.ok
          /\ result'.message \in {ErrNoUniqueCode, ErrLoadAfterCreate,
                                  ErrStorageInsertPlayer}]_vars

\* An order naming a member twice was just refused with a returned failure, on
\* a game in status not_started with two eligible members.
WitnessBadOrderReturned ==
  /\ result.op = "reorderPlayerOrder" /\ ~ result.ok /\ ~ result.thrown
  /\ result.message = MsgBadOrder
  /\ \E g \in games : /\ g.status = "not_started"
                      /\ Cardinality(EligibleOf(players, g.id)) = 2

\* C27: whatever way the queries of createGame calls interleave with each other,
\* no member ever has two rows of game_players with is_current set.
NoTwoCurrentRowsWhenInterleaved ==
  \A r \in players, q \in players :
    (r.player_email = q.player_email /\ r.is_current = 1 /\ q.is_current = 1)
    => r.id = q.id

\* C28: whatever way a status change interleaves with the queries of a
\* reorderPlayerOrder or generateGameLayout on the same game, no step changes
\* the playerOrder or the tiles of a game whose stored status is started or
\* finished.
NoGameStateWriteAfterStart ==
  [][\A g \in games :
       g.status # "not_started"
       => \A h \in games' : h.id = g.id => h.game_state = g.game_state]_vars

StoredState(gameId) == {g.game_state : g \in {h \in games : h.id = gameId}}

\* C29: reorderPlayerOrder and generateGameLayout each read the whole
\* game_state, change their copy and write the whole copy back without looking
\* at what is stored by then: the copy is the state getGame returned, reorder
\* replaces its playerOrder only and generate derives the new playerOrder from
\* the one that was read, and the save stores the copy and reports ok whatever
\* another call has stored since the read.  So of two concurrent calls that
\* both report ok, the later save undoes the earlier one's change.
WholeStateWrittenBackUnchecked ==
  [][\A p \in Requests :
       /\ (calls[p].pc = "idle" /\ calls'[p].pc \in {"reorderIsAdmin", "layoutIsAdmin"})
          => StoredState(calls'[p].gameId) = {calls'[p].gameState}
       /\ (calls[p].pc = "reorderIsAdmin" /\ calls'[p].pc = "reorderSave")
          => calls'[p].gameState.tiles = calls[p].gameState.tiles
       /\ (calls[p].pc = "layoutIsAdmin" /\ calls'[p].pc = "layoutSave")
          => /\ Len(calls'[p].gameState.tiles) = 19
             /\ IsPrefixOf(KeepOnly(calls[p].gameState.playerOrder, Range(calls[p].confirmed)),
                           calls'[p].gameState.playerOrder)
       /\ (calls[p].pc \in {"reorderSave", "layoutSave"} /\ calls'[p] # calls[p])
          => /\ result'.ok /\ ~ result'.thrown
             /\ result'.op = IF calls[p].pc = "reorderSave" THEN "reorderPlayerOrder"
                                                            ELSE "generateGameLayout"
             /\ {g.game_state : g \in {h \in games' : h.id = calls[p].gameId}}
                  = {calls[p].gameState}
             /\ UNCHANGED <<players, nextGameId, nextPlayerId>>]_vars

\* A generateGameLayout has stored its 19 tiles and reported ok while a
\* reorderPlayerOrder that read the game before stands at its save with the
\* empty tiles it read and a new order: its save will empty the board again.
WitnessStaleSaveAfterGenerate ==
  /\ result.op = "generateGameLayout" /\ result.ok
  /\ calls[ReorderRequest].pc = "reorderSave"
  /\ calls[ReorderRequest].gameState.tiles = <<>>
  /\ \E g \in games :
       /\ g.id = calls[ReorderRequest].gameId
       /\ Len(g.game_state.tiles) = 19
       /\ g.game_state.playerOrder # calls[ReorderRequest].gameState.playerOrder

\* The one game of the scenario: created by a, not started, with the given
\* playerOrder, and a's admin row next to b's row of the given status (no row
\* of b for NoStatus).
ScenarioGame(g, a, b, bStatus, order) ==
  /\ games = {g}
  /\ g.created_by = a /\ g.status = "not_started"
  /\ g.game_state.playerOrder = order
  /\ {<<r.game_id, r.player_email, r.status>> : r \in players}
       = {<<g.id, a, "admin">>}
           \cup (IF bStatus = NoStatus THEN {} ELSE {<<g.id, b, bStatus>>})
  /\ Cardinality(players) = IF bStatus = NoStatus THEN 1 ELSE 2

\* C30: end to end.  After createGame by a, requestJoinGame by b with the code
\* of the new game returns status waiting; approvePlayer(b) by a then makes b
\* confirmed; reorderPlayerOrder by a with [b, a] then stores playerOrder
\* [b, a]; and a generateGameLayout by a after that stores 19 tiles and leaves
\* playerOrder equal to [b, a].
EndToEndOrderSurvivesGenerate ==
  [][\A a \in Emails : \A b \in Emails \ {a} :
       /\ (games = {} /\ result'.op = "createGame" /\ result'.ok
             /\ \E n \in Names : createGame(n, a))
          => \E g \in games' : ScenarioGame(g, a, b, NoStatus, <<a>>)'
       /\ \A g \in games :
            /\ (ScenarioGame(g, a, b, NoStatus, <<a>>) /\ g.game_state.tiles = <<>>
                  /\ requestJoinGame(g.join_code, b))
               => /\ result'.ok /\ result'.status = "waiting"
                  /\ ScenarioGame(g, a, b, "waiting", <<a>>)'
            /\ (ScenarioGame(g, a, b, "waiting", <<a>>) /\ g.game_state.tiles = <<>>
                  /\ approvePlayer(g.id, b, a))
               => /\ result'.ok
                  /\ ScenarioGame(g, a, b, "confirmed", <<a>>)'
            /\ (ScenarioGame(g, a, b, "confirmed", <<a>>) /\ g.game_state.tiles = <<>>
                  /\ reorderPlayerOrder(g.id, a, <<b, a>>))
               => /\ result'.ok
                  /\ \E h \in games' :
                       /\ h.id = g.id /\ h.game_state.tiles = <<>>
                       /\ ScenarioGame(h, a, b, "confirmed", <<b, a>>)'
            /\ (ScenarioGame(g, a, b, "confirmed", <<b, a>>) /\ g.game_state.tiles = <<>>
                  /\ \E preset \in Presets :
                       generateGameLayout(g.id, a, preset, RandomSource(0, RandomCalls)))
               => /\ result'.ok
                  /\ \E h \in games' :
                       /\ games' = {h} /\ h.id = g.id
                       /\ Len(h.game_state.tiles) = 19
                       /\ h.game_state.playerOrder = <<b, a>>
                  /\ players' = players]_vars

\* The scenario has run to its end: the board has just been generated for the
\* game whose order the creator had changed to [b, a].
WitnessEndToEndDone ==
  /\ result.op = "generateGameLayout" /\ result.ok
  /\ \E g \in games :
       /\ games = {g} /\ g.status = "not_started"
       /\ Len(g.game_state.tiles) = 19
       /\ Len(g.game_state.playerOrder) = 2
       /\ g.game_state.playerOrder[2] = g.created_by
       /\ HoldsAdmin(players, g.id, g.created_by)
       /\ \E r \in players : /\ r.game_id = g.id /\ r.status = "confirmed"
                             /\ r.player_email = g.game_state.playerOrder[1]

\* C31: a setCurrentGameForUser(gameId, email) that returns ok leaves the row
\* of email in gameId stored with is_current = 1, also when a removePlayer,
\* leaveGame or deleteGame ran between its getPlayer and its transaction.
SetCurrentOkLeavesTargetCurrent ==
  [][\A p \in Requests :
       SetCurrentCommit(p)
         => \E r \in players' : /\ r.game_id = calls[p].gameId
                                /\ r.player_email = calls[p].email
                                /\ r.is_current = 1]_vars

\* C32: generateJoinCode terminates.  Every pass of its loop is one of at most
\* MaxAttempts (the pass counter is below MaxAttempts and a colliding pass
\* raises it by one); the loop hands back the code of the first pass whose
\* code no stored game holds; when the last pass collides too, createGame
\* throws ErrNoUniqueCode; and a createGame still in the loop has inserted no
\* games row and no game_players row, nor does any pass of the loop.
JoinCodeLoopTerminates ==
  /\ [](\A p \in Requests :
          calls[p].pc = "code"
            => /\ calls[p].attempt \in 0 .. (MaxAttempts - 1)
               /\ calls[p].gameId = NoGame
               /\ calls[p].joinCode = NoCode)
  /\ [][\A p \in Requests :
          GenerateJoinCodeAttempt(p)
            => /\ UNCHANGED tables
               /\ \/ /\ calls'[p].pc = "current"
                     /\ calls'[p].joinCode \in Codes
                     /\ CodeUnused(calls'[p].joinCode)
                     /\ UNCHANGED result
                  \/ /\ calls'[p].pc = "code"
                     /\ calls'[p].attempt = calls[p].attempt + 1
                     /\ \E c \in Codes : ~ CodeUnused(c)
                     /\ UNCHANGED result
                  \/ /\ calls[p].attempt = MaxAttempts - 1
                     /\ \E c \in Codes : ~ CodeUnused(c)
                     /\ calls'[p] = Idle
                     /\ result' = Result("createGame", FALSE, TRUE, ErrNoUniqueCode, NoStatus)]_vars

\* A createGame has just given up after MaxAttempts colliding draws, and the
\* tables hold nothing of it: every stored game has its admin row.
WitnessCodeExhausted ==
  /\ result.op = "createGame" /\ result.thrown /\ result.message = ErrNoUniqueCode
  /\ games # {}
  /\ \A g \in games : HoldsAdmin(players, g.id, g.created_by)
  /\ Cardinality(players) = Cardinality(games)

\* Strings of six digits, each digit the lowest or the highest there is.
SixDigitSamples == [1 .. 6 -> {0, 9}]

RECURSIVE DigitsValue(_)
\* The number a string of digits is the decimal notation of.
DigitsValue(s) ==
  IF Len(s) = 0 THEN 0 ELSE 10 * DigitsValue(SubSeq(s, 1, Len(s) - 1)) + s[Len(s)]

\* Some value of Math.floor(Math.random() * JoinCodeSpan), which is any of
\* 0 .. JoinCodeSpan - 1, makes generateJoinCode draw the string s.
CanBeDrawn(s) ==
  LET n == DigitsValue(s)
  IN /\ n - MinJoinCode \in 0 .. (JoinCodeSpan - 1)
     /\ DecimalDigits(n) = s

\* The codes a createGame holds or has stored, as the strings they are.
CodesIssued ==
  {DecimalDigits(calls[p].joinCode) : p \in {q \in Requests : calls[q].joinCode # NoCode}}
    \cup {DecimalDigits(g.join_code) : g \in games}

\* C33 as stated: every code issued is a string of exactly six digits, and
\* every string of six digits, leading zeros included, can be drawn.
JoinCodeAnySixDigitString ==
  /\ \A s \in CodesIssued : IsSixDigits(s)
  /\ \A s \in SixDigitSamples : CanBeDrawn(s)

\* C33: every code issued is a string of exactly six digits whose first digit
\* is not 0, and a string of six digits can be drawn exactly when its first
\* digit is not 0 (the 900,000 strings 100000..999999).
JoinCodeSixDigitsNoLeadingZero ==
  /\ \A s \in CodesIssued : IsSixDigits(s) /\ s[1] # 0
  /\ \A s \in SixDigitSamples : CanBeDrawn(s) <=> s[1] # 0

\* Two games are stored under different codes, one of them the lowest code
\* there is, 100000.
WitnessLowestCodeIssued ==
  \E g, h \in games :
    /\ DecimalDigits(g.join_code) = <<1, 0, 0, 0, 0, 0>>
    /\ h.join_code # g.join_code
    /\ IsSixDigits(DecimalDigits(h.join_code))

\* The entries that follow the first n entries of order.
After(order, n) == SubSeq(order, n + 1, Len(order))

\* C34 as stated: the order a successful reorderPlayerOrder stores is newOrder
\* filtered to the admin and confirmed members, followed by the members it
\* lacks, and those stand in the relative order they had in the playerOrder
\* stored before the call.
AppendedKeepStoredOrder ==
  [][result'.op = "reorderPlayerOrder" =>
     (result'.ok =>
        \A gid \in InputGameIds, e \in Emails, o \in Orders :
          reorderPlayerOrder(gid, e, o)
          => \A g \in games, h \in games' :
               (g.id = gid /\ h.id = gid)
               => LET eligible == EligibleOf(players, gid)
                      kept == KeepOnly(o, eligible)
                      appended == After(h.game_state.playerOrder, Len(kept))
                  IN /\ IsPrefixOf(kept, h.game_state.playerOrder)
                     /\ Range(appended) = eligible \ Range(kept)
                     /\ KeepOnly(appended, Range(g.game_state.playerOrder))
                          = KeepOnly(g.game_state.playerOrder, Range(appended)))]_vars

\* C34: the order a successful reorderPlayerOrder stores is newOrder filtered
\* to the admin and confirmed members, followed by the members it lacks, and
\* those stand in the order in which the query returns the players (the admin
\* row first), whatever the playerOrder stored before the call.
AppendedInQueryOrder ==
  [][result'.op = "reorderPlayerOrder" =>
     (result'.ok =>
        \A gid \in InputGameIds, e \in Emails, o \in Orders :
          reorderPlayerOrder(gid, e, o)
          => \A h \in games' :
               h.id = gid
               => LET eligible == EligibleOf(players, gid)
                      kept == KeepOnly(o, eligible)
                      appended == After(h.game_state.playerOrder, Len(kept))
                      queried == [i \in 1 .. Len(fetchPlayersByGameIds(gid))
                                    |-> fetchPlayersByGameIds(gid)[i].email]
                  IN /\ IsPrefixOf(kept, h.game_state.playerOrder)
                     /\ Range(appended) = eligible \ Range(kept)
                     /\ appended = KeepOnly(queried, Range(appended)))]_vars

\* A reorderPlayerOrder has just stored the order [a, b] for the game of a in
\* which b is confirmed: the order that an empty newOrder leads to, both
\* members appended, the admin first.
WitnessBothAppended ==
  /\ result.op = "reorderPlayerOrder" /\ result.ok
  /\ \E g \in games :
       /\ g.game_state.playerOrder = <<"a@x.com", "b@x.com">>
       /\ HoldsAdmin(players, g.id, "a@x.com")
       /\ \E r \in RowsOfPair(players, g.id, "b@x.com") : r.status = "confirmed"

\* C35: for the admin of a not_started game, reorderPlayerOrder fails, with
\* MsgBadOrder and nothing written, exactly when newOrder names some admin or
\* confirmed member more than once.  Entries that name waiting members or
\* strangers do not count, and members left out are appended: a newOrder that
\* is empty or names no admin or confirmed member at all is accepted, and the
\* order stored is then a permutation of the admin and confirmed members.
InvalidOrderOnlyForRepeats ==
  [][result'.op = "reorderPlayerOrder" =>
     \A g \in games :
       g.status = "not_started" =>
         \A e \in Emails :
           HoldsAdmin(players, g.id, e) =>
             \A o \in Orders :
               reorderPlayerOrder(g.id, e, o)
               => LET eligible == EligibleOf(players, g.id)
                      repeats == \E i, j \in 1 .. Len(o) :
                                   i # j /\ o[i] = o[j] /\ o[i] \in eligible
                  IN /\ result'.ok <=> ~ repeats
                     /\ repeats => result'.message = MsgBadOrder /\ UNCHANGED tables
                     /\ Range(o) \cap eligible = {}
                          => /\ result'.ok
                             /\ \E h \in games' :
                                  /\ h.id = g.id
                                  /\ IsPermutationOf(h.game_state.playerOrder, eligible)]_vars

\* A reorderPlayerOrder was refused with MsgBadOrder on a game whose only
\* eligible member is its admin, a second member still waiting: the refused
\* newOrder named the admin twice, whatever it said of the waiting member.
WitnessRepeatRefused ==
  /\ result.op = "reorderPlayerOrder" /\ ~ result.ok /\ result.message = MsgBadOrder
  /\ \E g \in games :
       /\ g.status = "not_started"
       /\ Cardinality(EligibleOf(players, g.id)) = 1
       /\ HoldsAdmin(players, g.id, g.created_by)
       /\ \E r \in players : r.game_id = g.id /\ r.status = "waiting"

\* How often email occurs in order.
Occurrences(order, email) == Cardinality({i \in 1 .. Len(order) : order[i] = email})

\* C36: the move of the reorder-players action.  With the target at place i
\* of the order received (its first occurrence), the order handed to
\* reorderPlayerOrder has the target and its upper neighbour exchanged for
\* "up" and i > 1, the target and its lower neighbour exchanged for "down" and
\* i below the length, and is the order received otherwise, which is handed on
\* all the same; it is always a permutation of the order received.  A target
\* that does not occur in the order is refused with MsgNotInOrder and
\* reorderPlayerOrder is not called.
MoveSwapsWithNeighbour ==
  /\ [](\A p \in Requests :
          calls[p].pc = "reorder"
            => LET o == calls[p].order
                   n == calls[p].newOrder
                   d == calls[p].direction
               IN /\ calls[p].targetEmail \in Range(o)
                  /\ Len(n) = Len(o)
                  /\ \A e \in Emails : Occurrences(n, e) = Occurrences(o, e)
                  /\ \A i \in 1 .. Len(o) :
                       (o[i] = calls[p].targetEmail /\ \A j \in 1 .. (i - 1) : o[j] # o[i])
                       => LET from == IF d = "up" /\ i > 1 THEN i - 1
                                      ELSE IF d = "down" /\ i < Len(o) THEN i + 1 ELSE i
                          IN /\ n[from] = o[i]
                             /\ n[i] = o[from]
                             /\ \A k \in 1 .. Len(o) : k \notin {i, from} => n[k] = o[k])
  /\ [][result'.op = "reorder-players" =>
          \/ /\ result' = Result("reorder-players", FALSE, FALSE, MsgNotInOrder, NoStatus)
             /\ UNCHANGED <<tables, calls>>
          \/ \A o \in MoveOrders : \A t \in Emails \ Range(o) :
               \A g \in ShownGameIds, e \in Emails, d \in Directions :
                 ~ ReorderPlayersMove(MoveRequest, g, e, [parses |-> TRUE, order |-> o], t, d)]_vars
  /\ [][\A p \in Requests :
          calls[p].pc = "reorder" /\ calls'[p].pc # "reorder"
            => result'.op = "reorderPlayerOrder" /\ ~ result'.thrown]_vars

\* The first player of a three-place order was to move up: the order handed
\* to reorderPlayerOrder is the order received.
WitnessFirstMovedUp ==
  \E p \in Requests :
    /\ calls[p].pc = "reorder" /\ calls[p].direction = "up"
    /\ Len(calls[p].order) = 3
    /\ calls[p].order[1] = calls[p].targetEmail
    /\ calls[p].order[2] # calls[p].targetEmail
    /\ calls[p].newOrder = calls[p].order

\* Of every game its status, tiles, playerOrder and join code.
BoardParts(gs) ==
  {[id |-> g.id, status |-> g.status, tiles |-> g.game_state.tiles,
    playerOrder |-> g.game_state.playerOrder, join_code |-> g.join_code] : g \in gs}
\* Of every game its tiles and playerOrder.
SetupParts(gs) ==
  {[id |-> g.id, tiles |-> g.game_state.tiles, playerOrder |-> g.game_state.playerOrder]
     : g \in gs}
\* Of every game its tiles.
TileParts(gs) == {[id |-> g.id, tiles |-> g.game_state.tiles] : g \in gs}

\* C37: each operation writes its own part of the state.  requestJoinGame,
\* approvePlayer, rejectPlayer, removePlayer and leaveGame change no game's
\* status, tiles, playerOrder or join code; updateGameStatus changes no tiles,
\* no playerOrder and no row of game_players; reorderPlayerOrder changes no
\* tiles; createGame leaves the rows of game_players it finds as they are; and
\* only createGame, on the row it inserts, and setCurrentGameForUser change
\* is_current: after any other operation every row that is still stored has
\* the is_current it had.
EachOperationWritesItsPart ==
  [][/\ result'.op \in {"requestJoinGame", "approvePlayer", "rejectPlayer",
                        "removePlayer", "leaveGame"}
          => BoardParts(games') = BoardParts(games)
     /\ result'.op = "updateGameStatus"
          => SetupParts(games') = SetupParts(games) /\ players' = players
     /\ result'.op = "reorderPlayerOrder" => TileParts(games') = TileParts(games)
     /\ result'.op = "createGame" => players \subseteq players'
     /\ result'.op \notin {"createGame", "setCurrentGameForUser"}
          => \A r \in players, q \in players' :
               q.id = r.id => q.is_current = r.is_current]_vars

\* A waiting member who had made the game their current one was just
\* approved, on a started game with its board generated: the row is confirmed
\* and still current, the board and the status are as they were.
WitnessApprovedStillCurrent ==
  /\ result.op = "approvePlayer" /\ result.ok
  /\ \E g \in games :
       /\ g.status = "started" /\ Len(g.game_state.tiles) = 19
       /\ \E r \in players : /\ r.game_id = g.id /\ r.status = "confirmed"
                             /\ r.is_current = 1 /\ r.player_email # g.created_by

\* C38: with the operations run one at a time, no stored playerOrder names
\* the same email twice, whatever createGame, membership changes,
\* reorderPlayerOrder with any newOrder and generateGameLayout were called.
NoEmailTwiceInPlayerOrder ==
  \A g \in games : NoDuplicates(g.game_state.playerOrder)

\* A newOrder was just refused on a game with its board generated and two
\* players in the stored order.
WitnessRepeatRefusedAfterGenerate ==
  /\ result.op = "reorderPlayerOrder" /\ result.message = MsgBadOrder
  /\ \E g \in games :
       /\ Len(g.game_state.tiles) = 19
       /\ Len(g.game_state.playerOrder) = 2

\* C39: the status admin is given by createGame alone.  Every admin row is
\* the row of the creator of its game; no operation turns a row it finds into
\* an admin row; a successful removePlayer, rejectPlayer or leaveGame deletes
\* one row and leaves no row of that member in that game (these are the steps
\* that return such a result with no call left under way); and a row for a
\* member who had none in
\* the game is either the admin row createGame inserts with its new game or a
\* waiting row inserted by requestJoinGame.
OnlyCreateGameGivesAdmin ==
  /\ [](\A r \in players :
          r.status = "admin"
            => \E g \in games : g.id = r.game_id /\ g.created_by = r.player_email)
  /\ [][/\ \A r \in players, q \in players' :
             (q.id = r.id /\ q.status = "admin") => r.status = "admin"
        /\ (result'.ok /\ result'.op \in {"removePlayer", "rejectPlayer", "leaveGame"}
               /\ calls' = calls)
             => \E r \in players :
                  /\ players' = players \ {r}
                  /\ RowsOfPair(players', r.game_id, r.player_email) = {}
        /\ \A q \in players' :
             RowsOfPair(players, q.game_id, q.player_email) = {}
               => IF result'.op = "createGame"
                  THEN /\ q.status = "admin"
                       /\ ~ \E g \in games : g.id = q.game_id
                  ELSE /\ result'.op = "requestJoinGame"
                       /\ q.status = "waiting"]_vars

\* A member whose row had been deleted has asked again and waits again: a
\* requestJoinGame has just inserted a waiting row, more rows have been
\* inserted than are stored, and the game has its admin.
WitnessReenteredAsWaiting ==
  /\ result.op = "requestJoinGame" /\ result.ok /\ result.message = MsgJoinSubmitted
  /\ nextPlayerId - 1 > Cardinality(players)
  /\ \E g \in games :
       /\ HoldsAdmin(players, g.id, g.created_by)
       /\ \E r \in players : /\ r.game_id = g.id /\ r.status = "waiting"
                             /\ r.id = nextPlayerId - 1

====
